---------------------------- MODULE Spec2Model ----------------------------
(***************************************************************************)
(* Auto-Review: rate-limit-aware request executor and batch orchestrator.  *)
(*                                                                         *)
(* The module models                                                       *)
(*   - api_client.fetch_submission_details: the retry loop around the      *)
(*     detail endpoint, its 429 / timeout handling and its wait times;     *)
(*   - submitter.submit_marks_and_feedback: the single grade POST;         *)
(*   - api_client.test_api_availability and auto_review.check_api_status:  *)
(*     the probe and the gate in front of a run;                           *)
(*   - auto_review.main: the listing loop, the processing loop, and        *)
(*     auto_review.process_submission_with_tracking.                       *)
(*                                                                         *)
(* Numbers of minutes are kept in hundredths of a minute (2.82 minutes is  *)
(* 282), so int(wait_minutes * 60) is (h * 60) \div 100.  The rounding of  *)
(* IEEE doubles is not modelled.                                           *)
(***************************************************************************)
EXTENDS Integers, Sequences, FiniteSets, TLC

\* ------------------------------------------------------------------------
\* Program constants (config.py defaults)
\* ------------------------------------------------------------------------
MAX_RETRIES == 3
RETRY_BASE_DELAY == 10
MIN_DELAY_BETWEEN_REQUESTS == 2
MAX_DELAY_BETWEEN_REQUESTS == 5

\* review_assignment(filepath, max_retries=3, ...) (reviewer.py:34)
REVIEW_MAX_RETRIES == 3

\* time.sleep(5) after a timeout (api_client.py:107)
TIMEOUT_SLEEP == 5

\* ------------------------------------------------------------------------
\* Bounds of the model
\* ------------------------------------------------------------------------
\* Pending submissions of one run; the LMS hands out attempt ids 1..MaxItems
MaxItems == 2

AttemptIds == 1..MaxItems

\* Python's None, for wait_minutes and for an absent header
None == -1

\* ------------------------------------------------------------------------
\* Responses of the detail endpoint
\* ------------------------------------------------------------------------
\* Minute values a 429 message can carry, in hundredths: 0 and 2.82
MinuteHundredths == {0, 282}

\* e.response.text of a 429, by the path the parsing code takes on it:
\* empty text, a message the pattern does not match (or no JSON object at
\* all), a match float() rejects ("1.2.3"), a match with a minute value.
Bodies ==
    {[shape |-> s, minutes |-> 0] : s \in {"empty", "nomatch", "badfloat"}}
    \cup {[shape |-> "match", minutes |-> h] : h \in MinuteHundredths}

\* The Retry-After header: absent, a digit string ("0", "7"), or an HTTP date
RetryAfters ==
    {[text |-> "absent", value |-> 0], [text |-> "date", value |-> 0]}
    \cup {[text |-> "digits", value |-> r] : r \in {0, 7}}

\* HTTP error statuses other than 429 that raise_for_status() raises on
OtherStatuses == {404, 500}

NoResp == [kind |-> "none", status |-> 0,
           body |-> [shape |-> "empty", minutes |-> 0],
           retry_after |-> [text |-> "absent", value |-> 0]]

Resp429(b, ra) == [kind |-> "http", status |-> 429, body |-> b, retry_after |-> ra]

RespHttp(s) == [NoResp EXCEPT !.kind = "http", !.status = s]

RespOf(k) == [NoResp EXCEPT !.kind = k]

\* api_client.py:65-85: wait_minutes after the body has been parsed
ParseWaitMinutes(body) ==
    IF body.shape = "match" THEN body.minutes ELSE None

\* `if wait_minutes:` -- None and 0.0 are both false
WaitMinutesTruthy(wm) == wm # None /\ wm # 0

\* `retry_after and retry_after.isdigit()`
RetryAfterIsDigit(ra) == ra.text = "digits"

\* int(wait_minutes * 60) + 5
WaitFromMinutes(wm) == ((wm * 60) \div 100) + 5

\* A slip: the jitter of the fallback branch added to Retry-After
WaitTime_WrongJitter(wm, ra, k, j1, j2) ==
    IF WaitMinutesTruthy(wm) THEN WaitFromMinutes(wm)
    ELSE IF RetryAfterIsDigit(ra) THEN ra.value + j2
    ELSE (k + 1) * RETRY_BASE_DELAY + j2

\* A slip: the fallback multiplies by the attempt index, not index + 1
WaitTime_IndexOffByOne(wm, ra, k, j1, j2) ==
    IF WaitMinutesTruthy(wm) THEN WaitFromMinutes(wm)
    ELSE IF RetryAfterIsDigit(ra) THEN ra.value + j1
    ELSE k * RETRY_BASE_DELAY + j2

\* api_client.py:87-97: the wait before the next attempt; j1 is
\* random.randint(2, 5), j2 is random.randint(5, 15), k the attempt index
WaitTime(wm, ra, k, j1, j2) ==
    IF WaitMinutesTruthy(wm) THEN WaitFromMinutes(wm)
    ELSE IF RetryAfterIsDigit(ra) THEN ra.value + j1
    ELSE (k + 1) * RETRY_BASE_DELAY + j2

\* The branch taken, as the line printed at 91, 94 or 97 names it
WaitSource(wm, ra) ==
    IF WaitMinutesTruthy(wm) THEN "message"
    ELSE IF RetryAfterIsDigit(ra) THEN "retry_after"
    ELSE "backoff"

\* The waits the two random draws allow
WaitTimes(wm, ra, k) ==
    {WaitTime(wm, ra, k, j1, j2) : j1 \in 2..5, j2 \in 5..15}

\* ------------------------------------------------------------------------
\* State
\* ------------------------------------------------------------------------
VARIABLES
    xpc,          \* position of fetch_submission_details:
                  \*   "idle", "request", "sleep", "returned", "raised"
    attempt_id,   \* its argument
    attempt,      \* the loop variable of `for attempt in range(MAX_RETRIES)`
    resp,         \* the response of the latest request
    wait_time,    \* the local wait_time: the wait computed for the latest 429
    wait_source,  \* which of the three sources the printed line names
    slept,        \* the time.sleep of the latest step: [kind, secs]
    nreq,         \* requests.get calls issued by this call
    n429,         \* 429 responses received by this call
    ntimeout,     \* timeouts of this call
    nsleeps,      \* time.sleep calls of this call
    xerr          \* the exception the call raised

xvars == <<xpc, attempt_id, attempt, resp, wait_time, wait_source, slept, nreq, n429,
           ntimeout, nsleeps, xerr>>

\* The executor's frame, without the record of the latest sleep
xframe == <<xpc, attempt_id, attempt, resp, wait_time, wait_source, nreq, n429,
            ntimeout, nsleeps, xerr>>

\* auto_review.main and process_submission_with_tracking
VARIABLES
    mpc,              \* position of main: "start", "gate", "listing",
                      \*   "listed", "fetch", "download", "review", "submit",
                      \*   "tally", "pace", "next", "report", "done"; main has
                      \*   returned early: "aborted", "no_ai", "returned"; an
                      \*   exception has left it: "crashed"
    all_submissions,  \* the accumulated pending set (attempt ids, in order)
    idx,              \* the loop variable of the processing loop (1-based)
    details,          \* file_details of the fetched detail (file names)
    files,            \* the paths download_submission_files returned
    disk,             \* assignments/: file name -> attempt id that wrote it, 0: absent
    review_result,    \* what review_assignment returned
    review_attempt,   \* the loop variable of review_assignment
    result,           \* (success, result_type) of the current item
    total_processed,
    total_failed,
    tallies,          \* total_pdf_graded, total_invalid_format, total_doc_files,
                      \*   total_zip_files, total_no_files
    failed_attempts,
    calls,            \* per attempt id: calls of fetch_submission_details,
                      \*   download_file, review_assignment, submit_marks_and_feedback
    submitted,        \* per attempt id: the POSTs sent and what
                      \*   submit_marks_and_feedback returned
    last_post,        \* the POST of the latest step: id, mark, template, answer
    downloaded,       \* per attempt id: the file names its processing wrote
    deleted,          \* per attempt id: the file names its processing removed
    npace,            \* wait_between_requests calls of main
    reported,         \* the final summary has been printed
    remove_errors,    \* the files whose os.remove raised in the cleanup of
                      \*   the current item
    lms_pages,        \* the pending submissions the listing endpoint serves,
                      \*   page p (of per_page items) at index p
    probe,            \* the frame of test_api_availability
    gate,             \* the frame of check_api_status
    page,             \* the local page of main
    requested,        \* the page numbers main has requested, in order
    response,         \* response.text: what the model answered
    review_text       \* review_assignment's review_text after the length limit

rvars == <<mpc, all_submissions, idx, details, files, disk, review_result,
           review_attempt, result, total_processed, total_failed, tallies,
           failed_attempts, calls, submitted, last_post, downloaded, deleted,
           npace, reported, remove_errors, lms_pages, probe, gate, page,
           requested, response, review_text>>

\* What the processing loop leaves alone: the LMS listing and the frames and
\* locals of the phases before it
gvars == <<lms_pages, probe, gate, page, requested>>

\* The state of the processing loop and of process_submission_with_tracking
pvars == <<idx, details, files, disk, review_result, review_attempt, result,
           total_processed, total_failed, tallies, failed_attempts, calls,
           submitted, last_post, downloaded, deleted, npace, reported,
           remove_errors, response, review_text>>

\* The text handled inside review_assignment
tvars == <<response, review_text>>

vars == <<xvars, rvars>>

NoErr == [type |-> "none", status |-> 0, id |-> 0, count |-> 0]

NoSleep == [kind |-> "none", secs |-> 0]

\* ------------------------------------------------------------------------
\* fetch_submission_details (api_client.py:27-109)
\* ------------------------------------------------------------------------
\* The call: url is built and the loop is entered
ExecCall(id) ==
    /\ xpc' = "request"
    /\ attempt_id' = id
    /\ attempt' = 0
    /\ resp' = NoResp
    /\ wait_time' = 0
    /\ wait_source' = "none"
    /\ slept' = NoSleep
    /\ nreq' = 0
    /\ n429' = 0
    /\ ntimeout' = 0
    /\ nsleeps' = 0
    /\ xerr' = NoErr

\* A slip: range(MAX_RETRIES + 1)
AttemptCap_OffByOne == MAX_RETRIES + 1

\* range(MAX_RETRIES)
AttemptCap == MAX_RETRIES

\* lines 39-41: the request succeeds, res.json() is returned
ExecOk ==
    /\ xpc = "request" /\ attempt < AttemptCap
    /\ nreq' = nreq + 1
    /\ resp' = RespOf("ok")
    /\ xpc' = "returned"
    /\ slept' = NoSleep
    /\ UNCHANGED <<attempt_id, attempt, wait_time, wait_source, n429, ntimeout, nsleeps, xerr>>
    /\ UNCHANGED rvars

\* lines 43-100: HTTPError with status 429; the wait is computed
Exec429 ==
    /\ xpc = "request" /\ attempt < AttemptCap
    /\ \E b \in Bodies, ra \in RetryAfters :
          /\ resp' = Resp429(b, ra)
          /\ wait_time' \in WaitTimes(ParseWaitMinutes(b), ra, attempt)
          /\ wait_source' = WaitSource(ParseWaitMinutes(b), ra)
    /\ nreq' = nreq + 1
    /\ n429' = n429 + 1
    /\ xpc' = "sleep"
    /\ slept' = NoSleep
    /\ UNCHANGED <<attempt_id, attempt, ntimeout, nsleeps, xerr>>
    /\ UNCHANGED rvars

\* A slip: a 5xx status is handled like a timeout instead of re-raised
ExecHttpError_Retry5xx ==
    /\ xpc = "request" /\ attempt < AttemptCap
    /\ \E s \in OtherStatuses :
          /\ resp' = RespHttp(s)
          /\ IF s >= 500
                THEN xpc' = "sleep" /\ xerr' = xerr
                ELSE /\ xpc' = "raised"
                     /\ xerr' = [type |-> "HTTPError", status |-> s,
                                 id |-> attempt_id, count |-> 0]
    /\ nreq' = nreq + 1
    /\ slept' = NoSleep
    /\ UNCHANGED <<attempt_id, attempt, wait_time, wait_source, n429, ntimeout, nsleeps>>
    /\ UNCHANGED rvars

\* lines 102-103: any other HTTPError is re-raised
ExecHttpError ==
    /\ xpc = "request" /\ attempt < AttemptCap
    /\ \E s \in OtherStatuses :
          /\ resp' = RespHttp(s)
          /\ xerr' = [type |-> "HTTPError", status |-> s, id |-> attempt_id, count |-> 0]
    /\ nreq' = nreq + 1
    /\ xpc' = "raised"
    /\ slept' = NoSleep
    /\ UNCHANGED <<attempt_id, attempt, wait_time, wait_source, n429, ntimeout, nsleeps>>
    /\ UNCHANGED rvars

\* lines 105-107: requests.exceptions.Timeout
ExecTimeout ==
    /\ xpc = "request" /\ attempt < AttemptCap
    /\ resp' = RespOf("timeout")
    /\ nreq' = nreq + 1
    /\ ntimeout' = ntimeout + 1
    /\ xpc' = "sleep"
    /\ slept' = NoSleep
    /\ UNCHANGED <<attempt_id, attempt, wait_time, wait_source, n429, nsleeps, xerr>>
    /\ UNCHANGED rvars

\* An exception no handler of the loop catches (a ConnectionError that is
\* no Timeout) leaves the function
ExecConnError ==
    /\ xpc = "request" /\ attempt < AttemptCap
    /\ resp' = RespOf("connerr")
    /\ xerr' = [type |-> "ConnectionError", status |-> 0, id |-> attempt_id, count |-> 0]
    /\ nreq' = nreq + 1
    /\ xpc' = "raised"
    /\ slept' = NoSleep
    /\ UNCHANGED <<attempt_id, attempt, wait_time, wait_source, n429, ntimeout, nsleeps>>
    /\ UNCHANGED rvars

\* A slip: a timeout is retried without advancing the loop variable
ExecSleep_TimeoutFree ==
    /\ xpc = "sleep"
    /\ slept' = IF resp.kind = "timeout"
                THEN [kind |-> "timeout", secs |-> TIMEOUT_SLEEP]
                ELSE [kind |-> "backoff", secs |-> wait_time]
    /\ nsleeps' = nsleeps + 1
    /\ attempt' = IF resp.kind = "timeout" THEN attempt ELSE attempt + 1
    /\ resp' = NoResp
    /\ xpc' = "request"
    /\ UNCHANGED <<attempt_id, wait_time, wait_source, nreq, n429, ntimeout, xerr>>
    /\ UNCHANGED rvars

\* A slip: the sleep after a 429 takes the base delay, not the computed wait
ExecSleep_FixedDelay ==
    /\ xpc = "sleep"
    /\ slept' = IF resp.kind = "timeout"
                THEN [kind |-> "timeout", secs |-> TIMEOUT_SLEEP]
                ELSE [kind |-> "backoff", secs |-> RETRY_BASE_DELAY]
    /\ nsleeps' = nsleeps + 1
    /\ attempt' = attempt + 1
    /\ resp' = NoResp
    /\ xpc' = "request"
    /\ UNCHANGED <<attempt_id, wait_time, wait_source, nreq, n429, ntimeout, xerr>>
    /\ UNCHANGED rvars

\* A variant: no sleep after the last permitted attempt, the terminal error
\* is raised at once
ExecSleep_SkipsLast ==
    /\ xpc = "sleep"
    /\ IF attempt = MAX_RETRIES - 1
         THEN slept' = NoSleep /\ nsleeps' = nsleeps
         ELSE /\ slept' = IF resp.kind = "timeout"
                            THEN [kind |-> "timeout", secs |-> TIMEOUT_SLEEP]
                            ELSE [kind |-> "backoff", secs |-> wait_time]
              /\ nsleeps' = nsleeps + 1
    /\ attempt' = attempt + 1
    /\ resp' = NoResp
    /\ xpc' = "request"
    /\ UNCHANGED <<attempt_id, wait_time, wait_source, nreq, n429, ntimeout, xerr>>
    /\ UNCHANGED rvars

\* lines 101 and 107: time.sleep, then the next iteration of the loop (the
\* exception e is out of scope once its handler is left)
ExecSleep ==
    /\ xpc = "sleep"
    /\ slept' = IF resp.kind = "timeout"
                THEN [kind |-> "timeout", secs |-> TIMEOUT_SLEEP]
                ELSE [kind |-> "backoff", secs |-> wait_time]
    /\ nsleeps' = nsleeps + 1
    /\ attempt' = attempt + 1
    /\ resp' = NoResp
    /\ xpc' = "request"
    /\ UNCHANGED <<attempt_id, wait_time, wait_source, nreq, n429, ntimeout, xerr>>
    /\ UNCHANGED rvars

\* line 109: the loop is exhausted
ExecExhausted ==
    /\ xpc = "request" /\ attempt >= AttemptCap
    /\ xerr' = [type |-> "Exception", status |-> 0, id |-> attempt_id,
                count |-> MAX_RETRIES]
    /\ xpc' = "raised"
    /\ slept' = NoSleep
    /\ UNCHANGED <<attempt_id, attempt, resp, wait_time, wait_source, nreq, n429,
                   ntimeout, nsleeps>>
    /\ UNCHANGED rvars

ExecStep ==
    \/ ExecOk
    \/ Exec429
    \/ ExecHttpError
    \/ ExecTimeout
    \/ ExecConnError
    \/ ExecSleep
    \/ ExecExhausted

\* ------------------------------------------------------------------------
\* test_api_availability (api_client.py:112-186)
\* ------------------------------------------------------------------------
\* What a failing request of the probe can be answered with: a 429, another
\* HTTP error status, a timeout, a connection error
ProbeErrors ==
    {Resp429(b, ra) : b \in Bodies, ra \in RetryAfters}
    \cup {RespHttp(s) : s \in OtherStatuses}
    \cup {RespOf("timeout"), RespOf("connerr")}

\* (success, error_message, wait_minutes)
ProbeResult(ok, err, wm) == [success |-> ok, error |-> err, wait_minutes |-> wm]

NoProbeResult == ProbeResult(FALSE, "none", None)

\* The responses a finished probe has seen and what it returned
NoSeen == [submissions |-> <<>>, list_resp |-> NoResp, detail_resp |-> NoResp,
           result |-> NoProbeResult]

NoProbe == [pc |-> "idle", nlist |-> 0, ndetail |-> 0, submissions |-> <<>>,
            first_attempt_id |-> 0, list_resp |-> NoResp, detail_resp |-> NoResp,
            result |-> NoProbeResult, prev |-> NoSeen]

\* fetch_submissions(page=1, per_page=1) answered without error: the first
\* pending submission, if there is one
FirstPending ==
    IF lms_pages # <<>> /\ lms_pages[1] # <<>> THEN <<lms_pages[1][1]>> ELSE <<>>

\* lines 159-180: wait_minutes of a 429 (the pattern of lines 72-80 again)
ProbeParseWaitMinutes(body) ==
    IF body.shape = "match" THEN body.minutes ELSE None

\* str(e) of an exception that is no 429
ErrText(r) ==
    CASE r.kind = "http" /\ r.status = 404 -> "404 Client Error"
      [] r.kind = "http" -> "500 Server Error"
      [] r.kind = "timeout" -> "Read timed out"
      [] OTHER -> "Connection refused"

\* lines 141-186: the two except clauses
ProbeClassify(r) ==
    IF r.kind = "http" /\ r.status = 429
       THEN ProbeResult(FALSE, "rate_limited", ProbeParseWaitMinutes(r.body))
       ELSE ProbeResult(FALSE, ErrText(r), None)

\* The call: a new frame; the ended call before it is remembered in prev
ProbeEnter ==
    [NoProbe EXCEPT !.pc = "listing",
                    !.prev = IF probe.pc = "returned"
                                THEN [submissions |-> probe.submissions,
                                      list_resp |-> probe.list_resp,
                                      detail_resp |-> probe.detail_resp,
                                      result |-> probe.result]
                                ELSE NoSeen]

\* What the steps of the probe leave alone
ProbeFrame ==
    /\ slept' = NoSleep
    /\ UNCHANGED <<xframe, pvars, mpc, all_submissions, lms_pages, gate, page,
                   requested>>

\* lines 126-133: the listing call returns; with nothing listed the probe
\* returns (True, None, None), else the detail of the first item is next
ProbeListOk ==
    /\ probe.pc = "listing"
    /\ probe' = [probe EXCEPT
                    !.nlist = @ + 1,
                    !.list_resp = RespOf("ok"),
                    !.submissions = FirstPending,
                    !.first_attempt_id =
                        IF FirstPending = <<>> THEN 0 ELSE FirstPending[1],
                    !.pc = IF FirstPending = <<>> THEN "returned" ELSE "detail",
                    !.result = IF FirstPending = <<>>
                                  THEN ProbeResult(TRUE, "none", None)
                                  ELSE NoProbeResult]
    /\ ProbeFrame

\* lines 126 and 141-186: the listing call raises
ProbeListError ==
    /\ probe.pc = "listing"
    /\ \E r \in ProbeErrors :
          probe' = [probe EXCEPT !.nlist = @ + 1, !.list_resp = r,
                                 !.pc = "returned", !.result = ProbeClassify(r)]
    /\ ProbeFrame

\* lines 135-139: the detail call returns
ProbeDetailOk ==
    /\ probe.pc = "detail"
    /\ probe' = [probe EXCEPT !.ndetail = @ + 1, !.detail_resp = RespOf("ok"),
                              !.pc = "returned",
                              !.result = ProbeResult(TRUE, "none", None)]
    /\ ProbeFrame

\* A variant: a 429 on the detail call is waited out and the call repeated,
\* as the executor does
ProbeDetailError_Retries ==
    /\ probe.pc = "detail"
    /\ \E r \in ProbeErrors :
          IF r.kind = "http" /\ r.status = 429 /\ probe.ndetail + 1 < MAX_RETRIES
             THEN /\ probe' = [probe EXCEPT !.ndetail = @ + 1, !.detail_resp = r]
                  /\ slept' = [kind |-> "backoff", secs |-> RETRY_BASE_DELAY]
             ELSE /\ probe' = [probe EXCEPT !.ndetail = @ + 1, !.detail_resp = r,
                                            !.pc = "returned",
                                            !.result = ProbeClassify(r)]
                  /\ slept' = NoSleep
    /\ UNCHANGED <<xframe, pvars, mpc, all_submissions, lms_pages, gate, page,
                   requested>>

\* A variant: the hint of a 429 is reported only when the call before did
\* not end rate-limited
ProbeDetailError_HintOnce ==
    /\ probe.pc = "detail"
    /\ \E r \in ProbeErrors :
          probe' = [probe EXCEPT
                      !.ndetail = @ + 1, !.detail_resp = r, !.pc = "returned",
                      !.result = IF probe.prev.result.error = "rate_limited"
                                    THEN [ProbeClassify(r) EXCEPT !.wait_minutes = None]
                                    ELSE ProbeClassify(r)]
    /\ ProbeFrame

\* lines 136 and 141-186: the detail call raises
ProbeDetailError ==
    /\ probe.pc = "detail"
    /\ \E r \in ProbeErrors :
          probe' = [probe EXCEPT !.ndetail = @ + 1, !.detail_resp = r,
                                 !.pc = "returned", !.result = ProbeClassify(r)]
    /\ ProbeFrame

ProbeStep ==
    \/ ProbeListOk
    \/ ProbeListError
    \/ ProbeDetailOk
    \/ ProbeDetailError

\* ------------------------------------------------------------------------
\* check_api_status (auto_review.py:43-84) and the head of main (447-490)
\* ------------------------------------------------------------------------
\* wait_mins = 20 when no wait time could be used (auto_review.py:66)
FALLBACK_WAIT_MINUTES == 20

\* per_page = 10 (auto_review.py:477)
PER_PAGE == 10

NoGate == [pc |-> "idle", nprobes |-> 0, nwaits |-> 0, wait_mins |-> 0,
           first |-> NoProbeResult, ok |-> FALSE]

\* lines 60-66: `if wait_minutes:` int(wait_minutes) + 1, else 20; the hint
\* is in hundredths of a minute
GateWaitMinutes(wm) ==
    IF wm # None /\ wm # 0
       THEN (wm \div 100) + 1
       ELSE FALLBACK_WAIT_MINUTES

\* utils.py:33-39: one time.sleep(60) per step of range(minutes * 60, 0, -60)
CountdownSleeps(minutes) == minutes

\* What the steps of check_api_status leave alone
GateFrame == UNCHANGED <<xframe, pvars, lms_pages, page, requested>>

\* main 455-458 and check_api_status 48-50: the first probe is called
MainStart ==
    /\ mpc = "start"
    /\ mpc' = "gate"
    /\ gate' = [NoGate EXCEPT !.pc = "probe1", !.nprobes = 1]
    /\ probe' = ProbeEnter
    /\ slept' = NoSleep
    /\ UNCHANGED all_submissions
    /\ GateFrame

\* A variant: every failure of the first probe is waited out
GateFirstProbe_WaitsOnAnyFailure ==
    /\ gate.pc = "probe1" /\ probe.pc = "returned"
    /\ gate' = [gate EXCEPT
                  !.first = probe.result,
                  !.pc = IF ~probe.result.success THEN "wait" ELSE "returned",
                  !.ok = probe.result.success,
                  !.wait_mins =
                      IF ~probe.result.success
                         THEN GateWaitMinutes(probe.result.wait_minutes) ELSE 0]
    /\ slept' = NoSleep
    /\ UNCHANGED <<mpc, all_submissions, probe>>
    /\ GateFrame

\* lines 50-66 and 82-84: the result of the first probe
GateFirstProbe ==
    /\ gate.pc = "probe1" /\ probe.pc = "returned"
    /\ gate' = [gate EXCEPT
                  !.first = probe.result,
                  !.pc = IF ~probe.result.success /\ probe.result.error = "rate_limited"
                            THEN "wait" ELSE "returned",
                  !.ok = probe.result.success,
                  !.wait_mins =
                      IF ~probe.result.success /\ probe.result.error = "rate_limited"
                         THEN GateWaitMinutes(probe.result.wait_minutes) ELSE 0]
    /\ slept' = NoSleep
    /\ UNCHANGED <<mpc, all_submissions, probe>>
    /\ GateFrame

\* lines 71-75: wait_with_countdown(wait_mins), then the second probe is
\* called
GateWait ==
    /\ gate.pc = "wait"
    /\ slept' = [kind |-> "countdown", secs |-> 60 * CountdownSleeps(gate.wait_mins)]
    /\ gate' = [gate EXCEPT !.pc = "probe2", !.nwaits = @ + 1, !.nprobes = @ + 1]
    /\ probe' = ProbeEnter
    /\ UNCHANGED <<mpc, all_submissions>>
    /\ GateFrame

\* A slip: a second probe that is still rate-limited is waited out again
GateSecondProbe_WaitsAgain ==
    /\ gate.pc = "probe2" /\ probe.pc = "returned"
    /\ gate' = [gate EXCEPT
                  !.pc = IF probe.result.error = "rate_limited" /\ gate.nprobes < 3
                            THEN "wait" ELSE "returned",
                  !.ok = probe.result.success]
    /\ slept' = NoSleep
    /\ UNCHANGED <<mpc, all_submissions, probe>>
    /\ GateFrame

\* lines 75-81: the result of the second probe decides
GateSecondProbe ==
    /\ gate.pc = "probe2" /\ probe.pc = "returned"
    /\ gate' = [gate EXCEPT !.pc = "returned", !.ok = probe.result.success]
    /\ slept' = NoSleep
    /\ UNCHANGED <<mpc, all_submissions, probe>>
    /\ GateFrame

\* A variant: a blocked API does not end the run, main starts over
GateReturns_StartsOver ==
    /\ mpc = "gate" /\ gate.pc = "returned"
    /\ IF ~gate.ok
         THEN /\ mpc' = "start"
              /\ gate' = NoGate
              /\ probe' = NoProbe
              /\ UNCHANGED <<page, all_submissions>>
         ELSE \E has_key \in BOOLEAN :
                 /\ mpc' = IF has_key THEN "listing" ELSE "no_ai"
                 /\ gate' = NoGate
                 /\ probe' = NoProbe
                 /\ page' = 1
                 /\ all_submissions' = <<>>
    /\ slept' = NoSleep
    /\ UNCHANGED <<xframe, pvars, lms_pages, requested>>

\* A variant: a blocked API does not return from main but falls through to
\* the final summary
GateReturns_ReportsOnAbort ==
    /\ mpc = "gate" /\ gate.pc = "returned"
    /\ IF ~gate.ok
         THEN /\ mpc' = "report"
              /\ UNCHANGED <<gate, probe, page, all_submissions>>
         ELSE \E has_key \in BOOLEAN :
                 /\ mpc' = IF has_key THEN "listing" ELSE "no_ai"
                 /\ gate' = NoGate
                 /\ probe' = NoProbe
                 /\ page' = 1
                 /\ all_submissions' = <<>>
    /\ slept' = NoSleep
    /\ UNCHANGED <<xframe, pvars, lms_pages, requested>>

\* main 458-477: a blocked API ends the run; so does a missing
\* GEMINI_API_KEY; else the listing phase starts and the frames of the gate
\* are gone
GateReturns ==
    /\ mpc = "gate" /\ gate.pc = "returned"
    /\ IF ~gate.ok
         THEN /\ mpc' = "aborted"
              /\ UNCHANGED <<gate, probe, page, all_submissions>>
         ELSE \E has_key \in BOOLEAN :
                 /\ mpc' = IF has_key THEN "listing" ELSE "no_ai"
                 /\ gate' = NoGate
                 /\ probe' = NoProbe
                 /\ page' = 1
                 /\ all_submissions' = <<>>
    /\ slept' = NoSleep
    /\ UNCHANGED <<xframe, pvars, lms_pages, requested>>

\* fetch_submissions(page, per_page) answered without error
PageOf(n) == IF n <= Len(lms_pages) THEN lms_pages[n] ELSE <<>>

\* A variant: the loop ends on an empty page only
FetchPage_UntilEmpty ==
    /\ mpc = "listing"
    /\ requested' = Append(requested, page)
    /\ IF PageOf(page) = <<>>
         THEN /\ mpc' = "listed"
              /\ UNCHANGED <<all_submissions, page>>
         ELSE /\ all_submissions' = all_submissions \o PageOf(page)
              /\ page' = page + 1
              /\ mpc' = mpc
    /\ slept' = NoSleep
    /\ UNCHANGED <<xframe, pvars, lms_pages, probe, gate>>

\* main 479-486: one iteration of the listing loop
FetchPage ==
    /\ mpc = "listing"
    /\ requested' = Append(requested, page)
    /\ IF PageOf(page) = <<>>
         THEN /\ mpc' = "listed"
              /\ UNCHANGED <<all_submissions, page>>
         ELSE /\ all_submissions' = all_submissions \o PageOf(page)
              /\ IF Len(PageOf(page)) < PER_PAGE
                   THEN mpc' = "listed" /\ page' = page
                   ELSE mpc' = mpc /\ page' = page + 1
    /\ slept' = NoSleep
    /\ UNCHANGED <<xframe, pvars, lms_pages, probe, gate>>

\* api_client.py:21-22: the listing call raises (an HTTP error status, a
\* timeout); nothing in main catches it
ListingError ==
    /\ mpc = "listing"
    /\ requested' = Append(requested, page)
    /\ mpc' = "crashed"
    /\ slept' = NoSleep
    /\ UNCHANGED <<xframe, pvars, lms_pages, probe, gate, page, all_submissions>>

\* ------------------------------------------------------------------------
\* Files, review results, statistics
\* ------------------------------------------------------------------------
FileNames == {"a.pdf", "b.docx", "c.zip", "d.txt", "e.docm"}

\* os.path.splitext(name)[1].lower()
Ext(name) ==
    CASE name = "a.pdf" -> ".pdf"
      [] name = "b.docx" -> ".docx"
      [] name = "c.zip" -> ".zip"
      [] name = "e.docm" -> ".docm"
      [] OTHER -> ".txt"

\* exercise.file_details of a detail response: no file, one file of each
\* kind, or two files
FileLists ==
    {<<>>, <<"a.pdf">>, <<"b.docx">>, <<"c.zip">>, <<"d.txt">>, <<"e.docm">>,
     <<"a.pdf", "d.txt">>}

\* reviewer.is_valid_file_type: (is_valid, can_ai_review)
IsValidFileType(name) == Ext(name) \in {".pdf", ".doc", ".docx"}

CanAiReview(name) == Ext(name) = ".pdf"

\* ------------------------------------------------------------------------
\* review_assignment: the text of the model's response (reviewer.py:152-207)
\* Texts are sequences of one-character strings.
\* ------------------------------------------------------------------------
MAX_CHARS == 800

MAX_REVIEW_CHARS == 600

TOTAL_MARKS == 100

\* int(total_marks * 0.7)
DEFAULT_MARKS == (TOTAL_MARKS * 7) \div 10

NoText == <<>>

\* '=== SCORE ==='
ScoreMarker ==
    <<"=", "=", "=", " ", "S", "C", "O", "R", "E", " ", "=", "=", "=">>

\* what \s matches in the texts used here
Whitespace == {" ", "\n"}

Digits == {"0", "1", "2", "3", "4", "5", "6", "7", "8", "9"}

DigitValue(c) ==
    CASE c = "0" -> 0 [] c = "1" -> 1 [] c = "2" -> 2 [] c = "3" -> 3
      [] c = "4" -> 4 [] c = "5" -> 5 [] c = "6" -> 6 [] c = "7" -> 7
      [] c = "8" -> 8 [] OTHER -> 9

Least(S) == CHOOSE i \in S : \A j \in S : i <= j

Greatest(S) == CHOOSE i \in S : \A j \in S : j <= i

\* the positions at which pat occurs in text
Occurrences(text, pat) ==
    {i \in 1..(Len(text) - Len(pat) + 1) : SubSeq(text, i, i + Len(pat) - 1) = pat}

\* pat in text
Contains(text, pat) == Occurrences(text, pat) # {}

\* text[:n]
Prefix(text, n) == SubSeq(text, 1, IF Len(text) < n THEN Len(text) ELSE n)

\* text.split(sep)[0], for a text that contains sep
SplitHead(text, sep) == SubSeq(text, 1, Least(Occurrences(text, sep)) - 1)

\* text.split(sep)[1], for a text that contains sep: what lies between the
\* first occurrence and the next one (or the end)
SplitSecond(text, sep) ==
    LET rest == SubSeq(text, Least(Occurrences(text, sep)) + Len(sep), Len(text))
        more == Occurrences(rest, sep)
    IN  IF more = {} THEN rest ELSE SubSeq(rest, 1, Least(more) - 1)

\* text.strip()
Strip(text) ==
    LET solid == {i \in 1..Len(text) : text[i] \notin Whitespace}
    IN  IF solid = {} THEN <<>> ELSE SubSeq(text, Least(solid), Greatest(solid))

\* text.rsplit('.', 1)[0]
RSplitDotHead(text) ==
    LET dots == {i \in 1..Len(text) : text[i] = "."}
    IN  IF dots = {} THEN text ELSE SubSeq(text, 1, Greatest(dots) - 1)

\* text[:n].rsplit('.', 1)[0] + '.'
CutAtSentence(text, n) == Append(RSplitDotHead(Prefix(text, n)), ".")

\* reviewer.py:161-184: review_text after the length limit
TruncateFeedback(text) ==
    IF Len(text) <= MAX_CHARS THEN text
    ELSE IF Contains(text, ScoreMarker)
            THEN LET review_part == Strip(SplitHead(text, ScoreMarker))
                     score_part == ScoreMarker \o SplitSecond(text, ScoreMarker)
                     kept == IF Len(review_part) > MAX_REVIEW_CHARS
                                THEN CutAtSentence(review_part, MAX_REVIEW_CHARS)
                                ELSE review_part
                     joined == kept \o <<"\n", "\n">> \o score_part
                 IN  IF Len(joined) > MAX_CHARS
                        THEN CutAtSentence(joined, MAX_CHARS)
                        ELSE joined
    ELSE CutAtSentence(text, MAX_CHARS)

\* re.IGNORECASE for the letters of the pattern 'MARKS:'
FoldCase(c) ==
    CASE c = "M" -> "m" [] c = "A" -> "a" [] c = "R" -> "r" [] c = "K" -> "k"
      [] c = "S" -> "s" [] OTHER -> c

FoldText(text) == [i \in 1..Len(text) |-> FoldCase(text[i])]

\* the end of the run of digits that starts at i (\d+ is greedy)
DigitRunEnd(text, i) ==
    LET stops == {j \in i..Len(text) : text[j] \notin Digits}
    IN  IF stops = {} THEN Len(text) ELSE Least(stops) - 1

\* the first position from i on that \s* does not consume
SkipSpace(text, i) ==
    LET solid == {j \in i..Len(text) : text[j] \notin Whitespace}
    IN  IF solid = {} THEN Len(text) + 1 ELSE Least(solid)

RECURSIVE IntOf(_)
\* int(digits)
IntOf(ds) ==
    IF ds = <<>> THEN 0
    ELSE 10 * IntOf(SubSeq(ds, 1, Len(ds) - 1)) + DigitValue(ds[Len(ds)])

\* reviewer.py:191-192: where r'MARKS:\s*(\d+)' matches
MarksLineMatches(text) ==
    {i \in Occurrences(FoldText(text), <<"m", "a", "r", "k", "s", ":">>) :
        LET d == SkipSpace(text, i + 6)
        IN  d <= Len(text) /\ text[d] \in Digits}

\* int(match.group(1)) of the first match
MarksLineValue(text) ==
    LET d == SkipSpace(text, Least(MarksLineMatches(text)) + 6)
    IN  IntOf(SubSeq(text, d, DigitRunEnd(text, d)))

\* str(total_marks)
TotalMarksChars == <<"1", "0", "0">>

\* reviewer.py:200-201: where rf'(\d+)\s*/\s*{total_marks}' matches
RatioMatches(text) ==
    {i \in 1..Len(text) :
        /\ text[i] \in Digits
        /\ LET s == SkipSpace(text, DigitRunEnd(text, i) + 1)
           IN  /\ s <= Len(text)
               /\ text[s] = "/"
               /\ LET t == SkipSpace(text, s + 1)
                  IN  /\ t + Len(TotalMarksChars) - 1 <= Len(text)
                      /\ SubSeq(text, t, t + Len(TotalMarksChars) - 1) = TotalMarksChars}

\* int(fallback_match.group(1)) of the first match
RatioValue(text) ==
    LET i == Least(RatioMatches(text))
    IN  IntOf(SubSeq(text, i, DigitRunEnd(text, i)))

\* min(max(marks, 0), total_marks)
ClampMarks(marks) ==
    LET low == IF marks < 0 THEN 0 ELSE marks
    IN  IF low > TOTAL_MARKS THEN TOTAL_MARKS ELSE low

\* reviewer.py:186-207: suggested_marks
ExtractMarks(text) ==
    IF MarksLineMatches(text) # {} THEN ClampMarks(MarksLineValue(text))
    ELSE IF RatioMatches(text) # {} THEN RatioValue(text)
    ELSE DEFAULT_MARKS

\* response.text of the reviews of a run: a MARKS line of 0, a MARKS line
\* above the total, a ratio above the total, no score at all
RunResponses ==
    {
      <<"E", "m", "p", "t", "y", ".", "\n", "\n", "=", "=", "=", " ", "S",
        "C", "O", "R", "E", " ", "=", "=", "=", "\n", "M", "A", "R", "K",
        "S", ":", " ", "0">>,
      <<"S", "u", "p", "e", "r", "b", ".", "\n", "\n", "=", "=", "=", " ",
        "S", "C", "O", "R", "E", " ", "=", "=", "=", "\n", "m", "a", "r",
        "k", "s", ":", " ", "1", "5", "0">>,
      <<"S", "u", "p", "e", "r", "b", ".", " ", "1", "5", "0", "/", "1", "0",
        "0">>,
      <<"F", "i", "n", "e", ".">>
    }

\* review_result['suggested_marks'] over the responses of a run
SuggestedMarks == {ExtractMarks(TruncateFeedback(r)) : r \in RunResponses}

NoReview == [is_valid_format |-> FALSE, can_review |-> FALSE,
             suggested_marks |-> None, feedback |-> "none", ext |-> "",
             retry_count |-> 0]

\* reviewer.py:56-64
ReviewInvalid(name) == [NoReview EXCEPT !.feedback = "Invalid file format", !.ext = Ext(name)]

\* A variant: a recognised document type is reported with a valid format
ReviewUnsupported_FormatValid(name) ==
    [NoReview EXCEPT !.is_valid_format = TRUE,
                     !.feedback = "File format not supported for AI review",
                     !.ext = Ext(name)]

\* reviewer.py:67-75
ReviewUnsupported(name) ==
    [NoReview EXCEPT !.feedback = "File format not supported for AI review",
                     !.ext = Ext(name)]

\* reviewer.py:211-218
ReviewDone(name, marks, n) ==
    [is_valid_format |-> TRUE, can_review |-> TRUE, suggested_marks |-> marks,
     feedback |-> "review", ext |-> Ext(name), retry_count |-> n]

\* reviewer.py:230-238
ReviewFailed(name, n) ==
    [NoReview EXCEPT !.feedback = "AI_REVIEW_FAILED", !.ext = Ext(name),
                     !.retry_count = n]

NoResult == [success |-> FALSE, type |-> "none"]

NoCalls == [detail |-> 0, download |-> 0, review |-> 0, submit |-> 0]

NoSubmit == [posts |-> 0, returned |-> "none"]

NoPost == [id |-> 0, mark |-> None, template |-> "none", answer |-> "none"]

NoTallies == [pdf_graded |-> 0, invalid_format |-> 0, doc_files |-> 0,
              zip_files |-> 0, no_files |-> 0]

\* The pending sets the listing phase can accumulate: n submissions, newest
\* first (sort_by=submission_time, sort_order=D)
Listings == {[i \in 1..n |-> n + 1 - i] : n \in 0..MaxItems}

\* The locals and counters of main before the processing loop
InitRunLocals ==
    /\ idx = 0
    /\ details = <<>>
    /\ files = <<>>
    /\ disk = [f \in FileNames |-> 0]
    /\ review_result = NoReview
    /\ review_attempt = 0
    /\ result = NoResult
    /\ total_processed = 0
    /\ total_failed = 0
    /\ tallies = NoTallies
    /\ failed_attempts = <<>>
    /\ calls = [a \in AttemptIds |-> NoCalls]
    /\ submitted = [a \in AttemptIds |-> NoSubmit]
    /\ last_post = NoPost
    /\ downloaded = [a \in AttemptIds |-> {}]
    /\ deleted = [a \in AttemptIds |-> {}]
    /\ npace = 0
    /\ reported = FALSE
    /\ remove_errors = {}
    /\ probe = NoProbe
    /\ gate = NoGate
    /\ requested = <<>>
    /\ review_text = NoText

\* The run-level state while no run is in progress
InitIdleRun ==
    /\ mpc = "idle"
    /\ all_submissions = <<>>
    /\ lms_pages = <<>>
    /\ page = 0
    /\ response = NoText
    /\ InitRunLocals

\* ------------------------------------------------------------------------
\* The executor called on its own (as test_lms_rate_limits.py calls it)
\* ------------------------------------------------------------------------
InitExec ==
    /\ xpc = "idle"
    /\ attempt_id = 0
    /\ attempt = 0
    /\ resp = NoResp
    /\ wait_time = 0
    /\ wait_source = "none"
    /\ slept = NoSleep
    /\ nreq = 0
    /\ n429 = 0
    /\ ntimeout = 0
    /\ nsleeps = 0
    /\ xerr = NoErr

\* A caller calls fetch_submission_details(id); a finished call may be
\* followed by another
CallFetch ==
    /\ xpc \in {"idle", "returned", "raised"}
    /\ \E id \in AttemptIds : ExecCall(id)
    /\ UNCHANGED rvars

NextExec ==
    \/ CallFetch
    \/ ExecStep

\* No run of main is in progress
InitStandalone == InitExec /\ InitIdleRun

SpecExec == InitStandalone /\ [][NextExec]_vars

\* ------------------------------------------------------------------------
\* The probe called on its own, again and again, against one LMS
\* ------------------------------------------------------------------------
\* An LMS whose pending submissions fit on one page
LmsOnePage == {<<l>> : l \in Listings}

InitProbe ==
    /\ InitExec
    /\ mpc = "idle"
    /\ all_submissions = <<>>
    /\ lms_pages \in LmsOnePage
    /\ page = 0
    /\ response = NoText
    /\ InitRunLocals

CallProbe ==
    /\ mpc = "idle" /\ probe.pc \in {"idle", "returned"}
    /\ probe' = ProbeEnter
    /\ ProbeFrame

NextProbe ==
    \/ CallProbe
    \/ ProbeStep

SpecProbe == InitProbe /\ [][NextProbe]_vars

\* ------------------------------------------------------------------------
\* The listing phase of main on its own, against an LMS of several pages
\* ------------------------------------------------------------------------
\* Pages the listing endpoint is asked for before the LMS runs out
MaxPages == 3

\* Page sizes: empty, short, full
PageSizes == {0, 1, PER_PAGE}

\* Item i of page n
PageItems(n, size) == [i \in 1..size |-> (n - 1) * PER_PAGE + i]

LmsPageSeqs ==
    UNION {{[n \in 1..k |-> PageItems(n, sizes[n])] : sizes \in [1..k -> PageSizes]}
              : k \in 0..MaxPages}

\* main at line 479, the gate passed
InitListing ==
    /\ InitExec
    /\ mpc = "listing"
    /\ all_submissions = <<>>
    /\ lms_pages \in LmsPageSeqs
    /\ page = 1
    /\ response = NoText
    /\ InitRunLocals

NextListing ==
    \/ FetchPage
    \/ ListingError

SpecListing == InitListing /\ [][NextListing]_vars

\* ------------------------------------------------------------------------
\* The sleeps behind a wait
\* ------------------------------------------------------------------------
\* utils.py:39: wait_with_countdown sleeps one minute at a time
COUNTDOWN_STEP == 60

\* The longest single time.sleep call by which the wait s is carried out:
\* wait_with_countdown loops over time.sleep(60) (utils.py:36-39); the executor
\* (api_client.py:101, 107), wait_between_requests (utils.py:18) and
\* review_assignment (reviewer.py:99) call time.sleep once with the whole wait
LongestSleepCall(s) ==
    IF s.kind = "countdown"
       THEN (IF s.secs < COUNTDOWN_STEP THEN s.secs ELSE COUNTDOWN_STEP)
       ELSE s.secs

\* ------------------------------------------------------------------------
\* review_assignment's handling of one response, on its own
\* ------------------------------------------------------------------------
\* n characters c, with a '.' at position dot (none when dot is not in 1..n)
Filler(c, n, dot) == [i \in 1..n |-> IF i = dot THEN "." ELSE c]

\* Lengths of the narrative part: short, just under max_review_chars, between
\* the two limits, above MAX_CHARS
BodyLengths == {100, 590, 700, 900}

\* Where the narrative has its only '.': nowhere, early, just under
\* max_review_chars
DotPositions == {0, 50, 580}

\* What follows the score line: nothing, or a long remark without a '.'
TailLengths == {0, 300}

\* The score line: none, a MARKS line, a lower-case MARKS line above the
\* total, a ratio above the total
ScoreLines ==
    {
      <<>>,
      <<"M", "A", "R", "K", "S", ":", " ", "8", "5">>,
      <<"m", "a", "r", "k", "s", ":", " ", "1", "5", "0">>,
      <<"1", "5", "0", "/", "1", "0", "0">>
    }

Responses ==
    {Filler("a", nb, dot)
       \o (IF marked THEN <<"\n", "\n">> \o ScoreMarker \o <<"\n">> ELSE <<"\n">>)
       \o line \o Filler("b", nt, 0) :
         nb \in BodyLengths, dot \in DotPositions, marked \in BOOLEAN,
         line \in ScoreLines, nt \in TailLengths}

InitReview ==
    /\ InitExec
    /\ mpc = "idle"
    /\ all_submissions = <<>>
    /\ lms_pages = <<>>
    /\ page = 0
    /\ response \in Responses
    /\ InitRunLocals

\* A variant: every retry waits the same five seconds
ReviewSleep_Flat(k) ==
    IF k > 0 THEN [kind |-> "review", secs |-> 5] ELSE NoSleep

\* reviewer.py:95-99: the wait before attempt index k >= 1
ReviewSleep(k) ==
    IF k > 0 THEN [kind |-> "review", secs |-> 5 * k] ELSE NoSleep

\* reviewer.py:93-218: the attempt of index review_attempt gets a response;
\* the response is cut to the limit, the marks are read from what is left,
\* and the result is returned
ReviewText ==
    /\ mpc = "idle" /\ review_result = NoReview
    /\ review_attempt < REVIEW_MAX_RETRIES
    /\ slept' = ReviewSleep(review_attempt)
    /\ review_text' = TruncateFeedback(response)
    /\ review_result' = ReviewDone("a.pdf", ExtractMarks(review_text'),
                                   review_attempt + 1)
    /\ UNCHANGED <<xframe, mpc, all_submissions, idx, details, files, disk,
                   review_attempt, result, total_processed, total_failed, tallies,
                   failed_attempts, calls, submitted, last_post, downloaded,
                   deleted, npace, reported, remove_errors, gvars, response>>

\* reviewer.py:93-104, 220-238: the attempt of index review_attempt raises;
\* the loop goes on, or after the last attempt AI_REVIEW_FAILED is returned
ReviewRaises ==
    /\ mpc = "idle" /\ review_result = NoReview
    /\ review_attempt < REVIEW_MAX_RETRIES
    /\ slept' = ReviewSleep(review_attempt)
    /\ IF review_attempt < REVIEW_MAX_RETRIES - 1
         THEN review_attempt' = review_attempt + 1 /\ UNCHANGED review_result
         ELSE /\ review_result' = ReviewFailed("a.pdf", review_attempt + 1)
              /\ UNCHANGED review_attempt
    /\ UNCHANGED <<xframe, mpc, all_submissions, idx, details, files, disk,
                   result, total_processed, total_failed, tallies,
                   failed_attempts, calls, submitted, last_post, downloaded,
                   deleted, npace, reported, remove_errors, gvars, tvars>>

NextReview ==
    \/ ReviewText
    \/ ReviewRaises

SpecReview == InitReview /\ [][NextReview]_vars

\* ------------------------------------------------------------------------
\* A run of auto_review.main, with process_submission_with_tracking
\* (auto_submit = True)
\* ------------------------------------------------------------------------
Init ==
    /\ InitExec
    /\ mpc = "start"
    /\ all_submissions = <<>>
    /\ lms_pages \in LmsOnePage
    /\ page = 0
    /\ response = NoText
    /\ InitRunLocals

Range(q) == {q[i] : i \in 1..Len(q)}

\* fetch_submission_details has returned or raised: its frame is gone
ExecFrameGone ==
    /\ xpc' = "idle"
    /\ attempt_id' = 0
    /\ attempt' = 0
    /\ resp' = NoResp
    /\ wait_time' = 0
    /\ wait_source' = "none"
    /\ slept' = NoSleep
    /\ nreq' = 0
    /\ n429' = 0
    /\ ntimeout' = 0
    /\ nsleeps' = 0
    /\ xerr' = NoErr

\* process_submission_with_tracking returns (ok, type) to main; its locals
\* are gone
ProcessReturns(ok, type) ==
    /\ result' = [success |-> ok, type |-> type]
    /\ mpc' = "tally"
    /\ details' = <<>>
    /\ files' = <<>>
    /\ review_result' = NoReview
    /\ review_attempt' = 0

\* auto_review.py:525-537 and 93-103: the loop takes item i and
\* process_submission_with_tracking calls fetch_submission_details
BeginItem(i) ==
    /\ idx' = i
    /\ ExecCall(all_submissions[i])
    /\ calls' = [calls EXCEPT ![all_submissions[i]].detail = @ + 1]
    /\ mpc' = "fetch"
    /\ details' = <<>>
    /\ files' = <<>>
    /\ review_result' = NoReview
    /\ review_attempt' = 0
    /\ result' = NoResult
    /\ last_post' = NoPost
    /\ remove_errors' = {}

\* A variant: with nothing pending the (empty) loop and the final summary
\* are still run
StartProcessing_NoEarlyReturn ==
    /\ mpc = "listed"
    /\ IF all_submissions = <<>>
         THEN /\ mpc' = "report"
              /\ UNCHANGED <<xvars, idx, details, files, review_result,
                             review_attempt, result, calls, last_post,
                             remove_errors>>
         ELSE BeginItem(1)
    /\ UNCHANGED <<all_submissions, disk, total_processed, total_failed, tallies,
                   failed_attempts, submitted, downloaded, deleted, npace, reported>>
    /\ UNCHANGED <<gvars, tvars>>

\* auto_review.py:488-523: nothing pending returns at once; else the
\* counters are set up and the loop starts
StartProcessing ==
    /\ mpc = "listed"
    /\ IF all_submissions = <<>>
         THEN /\ mpc' = "returned"
              /\ UNCHANGED <<xvars, idx, details, files, review_result,
                             review_attempt, result, calls, last_post,
                             remove_errors>>
         ELSE BeginItem(1)
    /\ UNCHANGED <<all_submissions, disk, total_processed, total_failed, tallies,
                   failed_attempts, submitted, downloaded, deleted, npace, reported>>
    /\ UNCHANGED <<gvars, tvars>>

\* The item in process and its attempt id
CurrentId == all_submissions[idx]

\* auto_review.py:103: the detail is returned
FetchReturned ==
    /\ mpc = "fetch" /\ xpc = "returned"
    /\ details' \in FileLists
    /\ mpc' = "download"
    /\ ExecFrameGone
    /\ UNCHANGED <<all_submissions, idx, files, disk, review_result, review_attempt,
                   result, total_processed, total_failed, tallies, failed_attempts,
                   calls, submitted, last_post, downloaded, deleted, npace, reported>>
    /\ UNCHANGED <<gvars, remove_errors, tvars>>

\* auto_review.py:270-272: an exception of fetch_submission_details
FetchRaised ==
    /\ mpc = "fetch" /\ xpc = "raised"
    /\ ProcessReturns(FALSE, "error")
    /\ ExecFrameGone
    /\ UNCHANGED <<all_submissions, idx, disk, total_processed, total_failed,
                   tallies, failed_attempts, calls, submitted, last_post, downloaded,
                   deleted, npace, reported>>
    /\ UNCHANGED <<gvars, remove_errors, tvars>>

\* disk after the first n files of the detail have been written
DiskAfter(n) ==
    [f \in FileNames |->
        IF \E i \in 1..n : details[i] = f THEN CurrentId ELSE disk[f]]

\* A variant: an item without files is done at once, nothing is submitted
\* (as process_submission, the function without tracking, does)
DownloadFiles_SkipsEmpty ==
    /\ mpc = "download"
    /\ disk' = DiskAfter(Len(details))
    /\ downloaded' = [downloaded EXCEPT ![CurrentId] = @ \cup Range(details)]
    /\ calls' = [calls EXCEPT ![CurrentId].download = @ + Len(details)]
    /\ IF details = <<>>
         THEN ProcessReturns(TRUE, "no_files")
         ELSE /\ files' = details
              /\ mpc' = "review"
              /\ UNCHANGED <<details, review_result, review_attempt, result>>
    /\ UNCHANGED <<xvars, all_submissions, idx, total_processed, total_failed, tallies,
                   failed_attempts, submitted, last_post, deleted, npace, reported>>
    /\ UNCHANGED <<gvars, remove_errors, tvars>>

\* downloader.py:26-43, auto_review.py:107-148: every file is downloaded;
\* with no file the "no file" feedback is submitted, else the first file is
\* reviewed
DownloadFiles ==
    /\ mpc = "download"
    /\ files' = details
    /\ disk' = DiskAfter(Len(details))
    /\ downloaded' = [downloaded EXCEPT ![CurrentId] = @ \cup Range(details)]
    /\ calls' = [calls EXCEPT ![CurrentId].download = @ + Len(details)]
    /\ mpc' = IF details = <<>> THEN "submit" ELSE "review"
    /\ UNCHANGED <<xvars, all_submissions, idx, details, review_result,
                   review_attempt, result, total_processed, total_failed, tallies,
                   failed_attempts, submitted, last_post, deleted, npace, reported>>
    /\ UNCHANGED <<gvars, remove_errors, tvars>>

\* downloader.py:18-20 raising on file n + 1: auto_review.py:270-272
DownloadError ==
    /\ mpc = "download"
    /\ \E n \in 0..(Len(details) - 1) :
          /\ disk' = DiskAfter(n)
          /\ downloaded' = [downloaded EXCEPT
                               ![CurrentId] = @ \cup {details[i] : i \in 1..n}]
          /\ calls' = [calls EXCEPT ![CurrentId].download = @ + n + 1]
    /\ ProcessReturns(FALSE, "error")
    /\ UNCHANGED <<xvars, all_submissions, idx, total_processed, total_failed,
                   tallies, failed_attempts, submitted, last_post, deleted, npace,
                   reported>>
    /\ UNCHANGED <<gvars, remove_errors, tvars>>

\* main_file = files[0]
MainFile == files[1]

\* reviewer.py:53-75: a format the AI cannot review is answered at once
ReviewRejectsFormat ==
    /\ mpc = "review" /\ ~CanAiReview(MainFile)
    /\ review_result' = IF IsValidFileType(MainFile)
                           THEN ReviewUnsupported(MainFile)
                           ELSE ReviewInvalid(MainFile)
    /\ calls' = [calls EXCEPT ![CurrentId].review = @ + 1]
    /\ mpc' = "submit"
    /\ UNCHANGED <<xvars, all_submissions, idx, details, files, disk, review_attempt,
                   result, total_processed, total_failed, tallies, failed_attempts,
                   submitted, last_post, downloaded, deleted, npace, reported>>
    /\ UNCHANGED <<gvars, remove_errors, tvars>>

\* review_assignment is entered when its loop variable is still 0
ReviewCalls ==
    IF review_attempt = 0
       THEN [calls EXCEPT ![CurrentId].review = @ + 1]
       ELSE calls

\* reviewer.py:93-218: an attempt that succeeds
ReviewAttemptOk ==
    /\ mpc = "review" /\ CanAiReview(MainFile)
    /\ review_attempt < REVIEW_MAX_RETRIES
    /\ slept' = ReviewSleep(review_attempt)
    /\ calls' = ReviewCalls
    /\ \E m \in SuggestedMarks :
          review_result' = ReviewDone(MainFile, m, review_attempt + 1)
    /\ mpc' = "submit"
    /\ UNCHANGED <<xframe, all_submissions, idx, details, files, disk, review_attempt,
                   result, total_processed, total_failed, tallies, failed_attempts,
                   submitted, last_post, downloaded, deleted, npace, reported>>
    /\ UNCHANGED <<gvars, remove_errors, tvars>>

\* reviewer.py:220-238 and auto_review.py:176-185: an attempt that raises;
\* after the last one the result is AI_REVIEW_FAILED, nothing is submitted
\* and (False, 'ai_failure') is returned
ReviewAttemptError ==
    /\ mpc = "review" /\ CanAiReview(MainFile)
    /\ review_attempt < REVIEW_MAX_RETRIES
    /\ slept' = ReviewSleep(review_attempt)
    /\ calls' = ReviewCalls
    /\ IF review_attempt < REVIEW_MAX_RETRIES - 1
         THEN /\ review_attempt' = review_attempt + 1
              /\ UNCHANGED <<mpc, details, files, review_result, result>>
         ELSE ProcessReturns(FALSE, "ai_failure")
    /\ UNCHANGED <<xframe, all_submissions, idx, disk, total_processed, total_failed,
                   tallies, failed_attempts, submitted, last_post, downloaded,
                   deleted, npace, reported>>
    /\ UNCHANGED <<gvars, remove_errors, tvars>>

\* auto_review.py:150-162
ResultType ==
    IF files = <<>> THEN "no_files"
    ELSE IF ~review_result.is_valid_format
            THEN IF Ext(MainFile) \in {".doc", ".docx"} THEN "doc_rejected"
                 ELSE IF Ext(MainFile) = ".zip" THEN "zip_rejected"
                 ELSE "invalid_format"
    ELSE IF review_result.can_review THEN "pdf_graded"
    ELSE "unknown"

\* The characters of an extension
ExtChars(ext) ==
    CASE ext = ".pdf" -> <<".", "p", "d", "f">>
      [] ext = ".docx" -> <<".", "d", "o", "c", "x">>
      [] ext = ".docm" -> <<".", "d", "o", "c", "m">>
      [] ext = ".zip" -> <<".", "z", "i", "p">>
      [] OTHER -> <<".", "t", "x", "t">>

\* reviewer.py:62, lowered: the text before and after the extension (the
\* leading mark written "x")
InvalidFormatPrefix ==
    <<"x", " ", "i", "n", "v", "a", "l", "i", "d", " ", "f", "i", "l", "e",
      " ", "f", "o", "r", "m", "a", "t", " ", "(">>

InvalidFormatSuffix ==
    <<")", ".", " ", "p", "l", "e", "a", "s", "e", " ", "s", "u", "b", "m",
      "i", "t", " ", "a", "s", " ", "p", "d", "f", ".">>

\* reviewer.py:73, lowered
UnsupportedPrefix ==
    <<"x", " ", "f", "i", "l", "e", " ", "f", "o", "r", "m", "a", "t", " ",
      "n", "o", "t", " ", "s", "u", "p", "p", "o", "r", "t", "e", "d", " ",
      "f", "o", "r", " ", "a", "i", " ", "r", "e", "v", "i", "e", "w", " ",
      "(">>

UnsupportedSuffix ==
    <<")", ".", " ", "p", "l", "e", "a", "s", "e", " ", "c", "o", "n", "v",
      "e", "r", "t", " ", "t", "o", " ", "p", "d", "f", " ", "a", "n", "d",
      " ", "r", "e", "s", "u", "b", "m", "i", "t", ".">>

\* review_result['feedback'].lower() of a rejected format
FeedbackLower(r) ==
    IF r.feedback = "Invalid file format"
       THEN InvalidFormatPrefix \o ExtChars(r.ext) \o InvalidFormatSuffix
       ELSE UnsupportedPrefix \o ExtChars(r.ext) \o UnsupportedSuffix

\* '.doc' in review_result['feedback'].lower()
DotDocInFeedback == Contains(FeedbackLower(review_result), <<".", "d", "o", "c">>)

\* auto_review.py:114-126, 177-209, 229-230: the payload
PayloadMarks ==
    IF files = <<>> \/ ~review_result.is_valid_format THEN 0
    ELSE IF review_result.suggested_marks \in {None, 0} THEN 0
    ELSE review_result.suggested_marks

PayloadTemplate ==
    IF files = <<>> THEN "no_file"
    ELSE IF ~review_result.is_valid_format
            THEN IF DotDocInFeedback THEN "doc_format" ELSE "invalid_format"
    ELSE "review"

\* submitter.py:40-46 and auto_review.py:135-140, 218-226, 255-268: the POST
\* succeeds; every downloaded file is removed unless os.remove raises
SubmitOk ==
    /\ mpc = "submit"
    /\ last_post' = [id |-> CurrentId, mark |-> PayloadMarks,
                     template |-> PayloadTemplate, answer |-> "ok"]
    /\ submitted' = [submitted EXCEPT ![CurrentId] =
                        [posts |-> @.posts + 1, returned |-> "ok"]]
    /\ calls' = [calls EXCEPT ![CurrentId].submit = @ + 1]
    /\ \E kept \in SUBSET Range(files) :
          /\ disk' = [f \in FileNames |->
                        IF f \in Range(files) \ kept THEN 0 ELSE disk[f]]
          /\ deleted' = [deleted EXCEPT ![CurrentId] =
                           @ \cup {f \in Range(files) \ kept : disk[f] # 0}]
          /\ remove_errors' = kept
    /\ ProcessReturns(TRUE, ResultType)
    /\ slept' = NoSleep
    /\ UNCHANGED <<xframe, all_submissions, idx, total_processed, total_failed,
                   tallies, failed_attempts, downloaded, npace, reported>>
    /\ UNCHANGED <<gvars, tvars>>

\* What the LMS can answer a POST that fails: an HTTP error status (429 or
\* another) or no answer in time
PostFailures == {"http429", "http500", "timeout"}

\* A variant: a POST answered 429 or not in time is retried after a wait,
\* as the detail fetch is, up to MAX_RETRIES POSTs
SubmitFail_Retries ==
    /\ mpc = "submit"
    /\ \E a \in PostFailures :
          /\ last_post' = [id |-> CurrentId, mark |-> PayloadMarks,
                           template |-> PayloadTemplate, answer |-> a]
          /\ IF a \in {"http429", "timeout"} /\ submitted[CurrentId].posts + 1 < MAX_RETRIES
                THEN /\ submitted' = [submitted EXCEPT ![CurrentId].posts = @ + 1]
                     /\ slept' = [kind |-> "backoff", secs |-> RETRY_BASE_DELAY]
                     /\ UNCHANGED <<mpc, details, files, review_result,
                                    review_attempt, result>>
                ELSE /\ submitted' = [submitted EXCEPT ![CurrentId] =
                                         [posts |-> @.posts + 1, returned |-> "failed"]]
                     /\ slept' = NoSleep
                     /\ ProcessReturns(ResultType # "pdf_graded", ResultType)
    /\ calls' = [calls EXCEPT ![CurrentId].submit =
                    IF submitted[CurrentId].posts = 0 THEN @ + 1 ELSE @]
    /\ UNCHANGED <<xframe, all_submissions, idx, disk, total_processed, total_failed,
                   tallies, failed_attempts, downloaded, deleted, npace, reported>>
    /\ UNCHANGED <<gvars, remove_errors, tvars>>

\* A slip: the cleanup runs whatever submit_marks_and_feedback returned
SubmitFail_DeletesFiles ==
    /\ mpc = "submit"
    /\ \E a \in PostFailures :
          last_post' = [id |-> CurrentId, mark |-> PayloadMarks,
                        template |-> PayloadTemplate, answer |-> a]
    /\ submitted' = [submitted EXCEPT ![CurrentId] =
                        [posts |-> @.posts + 1, returned |-> "failed"]]
    /\ calls' = [calls EXCEPT ![CurrentId].submit = @ + 1]
    /\ disk' = [f \in FileNames |-> IF f \in Range(files) THEN 0 ELSE disk[f]]
    /\ deleted' = [deleted EXCEPT ![CurrentId] = @ \cup Range(files)]
    /\ ProcessReturns(ResultType # "pdf_graded", ResultType)
    /\ slept' = NoSleep
    /\ UNCHANGED <<xframe, all_submissions, idx, total_processed, total_failed,
                   tallies, failed_attempts, downloaded, npace, reported>>
    /\ UNCHANGED <<gvars, remove_errors, tvars>>

\* A variant: a failed POST is a failure of the item whatever its outcome type
SubmitFail_AlwaysFailsItem ==
    /\ mpc = "submit"
    /\ \E a \in PostFailures :
          last_post' = [id |-> CurrentId, mark |-> PayloadMarks,
                        template |-> PayloadTemplate, answer |-> a]
    /\ submitted' = [submitted EXCEPT ![CurrentId] =
                        [posts |-> @.posts + 1, returned |-> "failed"]]
    /\ calls' = [calls EXCEPT ![CurrentId].submit = @ + 1]
    /\ ProcessReturns(FALSE, ResultType)
    /\ slept' = NoSleep
    /\ UNCHANGED <<xframe, all_submissions, idx, disk, total_processed, total_failed,
                   tallies, failed_attempts, downloaded, deleted, npace, reported>>
    /\ UNCHANGED <<gvars, remove_errors, tvars>>

\* submitter.py:48-69 and auto_review.py:137-140, 264-268: the POST fails and
\* (False, None) is returned; only a reviewed file makes that a failure of
\* the item
SubmitFail ==
    /\ mpc = "submit"
    /\ \E a \in PostFailures :
          last_post' = [id |-> CurrentId, mark |-> PayloadMarks,
                        template |-> PayloadTemplate, answer |-> a]
    /\ submitted' = [submitted EXCEPT ![CurrentId] =
                        [posts |-> @.posts + 1, returned |-> "failed"]]
    /\ calls' = [calls EXCEPT ![CurrentId].submit = @ + 1]
    /\ ProcessReturns(ResultType # "pdf_graded", ResultType)
    /\ slept' = NoSleep
    /\ UNCHANGED <<xframe, all_submissions, idx, disk, total_processed, total_failed,
                   tallies, failed_attempts, downloaded, deleted, npace, reported>>
    /\ UNCHANGED <<gvars, remove_errors, tvars>>

\* A variant: an item without files is counted as processed but not tallied
TalliesAfter_NoFilesUntallied(type) ==
    CASE type = "pdf_graded" -> [tallies EXCEPT !.pdf_graded = @ + 1]
      [] type = "doc_rejected" ->
            [tallies EXCEPT !.doc_files = @ + 1, !.invalid_format = @ + 1]
      [] type = "zip_rejected" ->
            [tallies EXCEPT !.zip_files = @ + 1, !.invalid_format = @ + 1]
      [] type = "invalid_format" -> [tallies EXCEPT !.invalid_format = @ + 1]
      [] OTHER -> tallies

\* auto_review.py:547-562
TalliesAfter(type) ==
    CASE type = "pdf_graded" -> [tallies EXCEPT !.pdf_graded = @ + 1]
      [] type = "doc_rejected" ->
            [tallies EXCEPT !.doc_files = @ + 1, !.invalid_format = @ + 1]
      [] type = "zip_rejected" ->
            [tallies EXCEPT !.zip_files = @ + 1, !.invalid_format = @ + 1]
      [] type = "no_files" -> [tallies EXCEPT !.no_files = @ + 1]
      [] type = "invalid_format" -> [tallies EXCEPT !.invalid_format = @ + 1]
      [] OTHER -> tallies

\* A slip: a failed item is counted and the loop goes on (no break)
Tally_ContinuesOnFailure ==
    /\ mpc = "tally"
    /\ IF result.success
         THEN /\ total_processed' = total_processed + 1
              /\ tallies' = TalliesAfter(result.type)
              /\ UNCHANGED <<total_failed, failed_attempts>>
         ELSE /\ total_failed' = total_failed + 1
              /\ failed_attempts' = Append(failed_attempts,
                    [item |-> CurrentId,
                     reason |-> "AI review failed after max retries"])
              /\ UNCHANGED <<total_processed, tallies>>
    /\ mpc' = IF idx < Len(all_submissions) THEN "pace" ELSE "report"
    /\ slept' = NoSleep
    /\ UNCHANGED <<xframe, all_submissions, idx, details, files, disk, review_result,
                   review_attempt, result, calls, submitted, last_post, downloaded,
                   deleted, npace, reported>>
    /\ UNCHANGED <<gvars, remove_errors, tvars>>

\* auto_review.py:539-610: the item is counted; a failure ends the loop
Tally ==
    /\ mpc = "tally"
    /\ IF result.success
         THEN /\ total_processed' = total_processed + 1
              /\ tallies' = TalliesAfter(result.type)
              /\ mpc' = IF idx < Len(all_submissions) THEN "pace" ELSE "report"
              /\ UNCHANGED <<total_failed, failed_attempts>>
         ELSE /\ total_failed' = total_failed + 1
              /\ failed_attempts' = Append(failed_attempts,
                    [item |-> CurrentId,
                     reason |-> "AI review failed after max retries"])
              /\ mpc' = "report"
              /\ UNCHANGED <<total_processed, tallies>>
    /\ slept' = NoSleep
    /\ UNCHANGED <<xframe, all_submissions, idx, details, files, disk, review_result,
                   review_attempt, result, calls, submitted, last_post, downloaded,
                   deleted, npace, reported>>
    /\ UNCHANGED <<gvars, remove_errors, tvars>>

\* A variant: the pause is the executor's base delay, not a delay between
\* MIN_DELAY_BETWEEN_REQUESTS and MAX_DELAY_BETWEEN_REQUESTS
Pace_FixedDelay ==
    /\ mpc = "pace"
    /\ slept' = [kind |-> "pacing", secs |-> RETRY_BASE_DELAY]
    /\ npace' = npace + 1
    /\ mpc' = "next"
    /\ UNCHANGED <<xframe, all_submissions, idx, details, files, disk, review_result,
                   review_attempt, result, total_processed, total_failed, tallies,
                   failed_attempts, calls, submitted, last_post, downloaded, deleted,
                   reported>>
    /\ UNCHANGED <<gvars, remove_errors, tvars>>

\* auto_review.py:609-610, utils.py:14-18: the pause before the next item
\* (random.uniform, in whole seconds here)
Pace ==
    /\ mpc = "pace"
    /\ \E d \in MIN_DELAY_BETWEEN_REQUESTS..MAX_DELAY_BETWEEN_REQUESTS :
          slept' = [kind |-> "pacing", secs |-> d]
    /\ npace' = npace + 1
    /\ mpc' = "next"
    /\ UNCHANGED <<xframe, all_submissions, idx, details, files, disk, review_result,
                   review_attempt, result, total_processed, total_failed, tallies,
                   failed_attempts, calls, submitted, last_post, downloaded, deleted,
                   reported>>
    /\ UNCHANGED <<gvars, remove_errors, tvars>>

\* A variant: the loop takes up the item it has just finished once more
NextItem_SameItem ==
    /\ mpc = "next"
    /\ BeginItem(idx)
    /\ UNCHANGED <<all_submissions, disk, total_processed, total_failed, tallies,
                   failed_attempts, submitted, downloaded, deleted, npace, reported>>
    /\ UNCHANGED <<gvars, tvars>>

\* auto_review.py:525-537: the next iteration of the loop
NextItem ==
    /\ mpc = "next"
    /\ BeginItem(idx + 1)
    /\ UNCHANGED <<all_submissions, disk, total_processed, total_failed, tallies,
                   failed_attempts, submitted, downloaded, deleted, npace, reported>>
    /\ UNCHANGED <<gvars, tvars>>

\* auto_review.py:612-689: the final summary
FinalReport ==
    /\ mpc = "report"
    /\ reported' = TRUE
    /\ mpc' = "done"
    /\ UNCHANGED <<xvars, all_submissions, idx, details, files, disk, review_result,
                   review_attempt, result, total_processed, total_failed, tallies,
                   failed_attempts, calls, submitted, last_post, downloaded, deleted,
                   npace>>
    /\ UNCHANGED <<gvars, remove_errors, tvars>>

Next ==
    \/ MainStart
    \/ ProbeStep
    \/ GateFirstProbe
    \/ GateWait
    \/ GateSecondProbe
    \/ GateReturns
    \/ FetchPage
    \/ ListingError
    \/ StartProcessing
    \/ ExecStep
    \/ FetchReturned
    \/ FetchRaised
    \/ DownloadFiles
    \/ DownloadError
    \/ ReviewRejectsFormat
    \/ ReviewAttemptOk
    \/ ReviewAttemptError
    \/ SubmitOk
    \/ SubmitFail
    \/ Tally
    \/ Pace
    \/ NextItem
    \/ FinalReport

Spec == Init /\ [][Next]_vars

\* The run under the scheduling of a single thread that is never suspended
\* for ever: every call returns and every sleep ends, so some step is taken
\* whenever one is possible
SpecFair == Init /\ [][Next]_vars /\ WF_vars(Next)

\* ------------------------------------------------------------------------
\* Properties of the executor
\* ------------------------------------------------------------------------
\* The latest response is a 429 whose wait has been computed
After429 == xpc = "sleep" /\ resp.kind = "http" /\ resp.status = 429

\* C1: a call of fetch_submission_details issues at most MAX_RETRIES
\* requests, whatever the responses; once MAX_RETRIES attempts have all ended
\* in a 429 or a timeout the next step issues no request and raises the
\* terminal error, which names the attempt id and the attempt count.
C1_AtMostMaxRetriesThenTerminal ==
    /\ [](/\ nreq <= MAX_RETRIES
          /\ xerr.type = "Exception" =>
                /\ xpc = "raised"
                /\ nreq = MAX_RETRIES
                /\ n429 + ntimeout = MAX_RETRIES
                /\ xerr.id = attempt_id
                /\ xerr.count = MAX_RETRIES)
    /\ [][(xpc = "request" /\ n429 + ntimeout = MAX_RETRIES) =>
            /\ xpc' = "raised"
            /\ nreq' = nreq
            /\ xerr' = [type |-> "Exception", status |-> 0, id |-> attempt_id,
                        count |-> MAX_RETRIES]]_vars

C1_Witness ==
    /\ xpc = "raised" /\ xerr.type = "Exception"
    /\ n429 >= 1 /\ ntimeout >= 1

\* C2: an HTTP error whose status is not 429 leaves the function on the
\* attempt where it occurs, whatever preceded it: the step that receives it
\* raises it, and no sleep and no request of this call follows.
C2_OtherHttpErrorNotRetried ==
    /\ [][(nreq' = nreq + 1 /\ resp'.kind = "http" /\ resp'.status # 429) =>
            /\ xpc' = "raised"
            /\ xerr'.type = "HTTPError" /\ xerr'.status = resp'.status
            /\ slept' = NoSleep /\ nsleeps' = nsleeps]_vars
    /\ [][(xpc = "raised" /\ xerr.type = "HTTPError") =>
            /\ slept' = NoSleep
            /\ nreq' <= nreq /\ nsleeps' <= nsleeps
            /\ xpc' # "sleep"]_vars
    /\ [](xerr.type = "HTTPError" =>
            /\ xpc = "raised"
            /\ xerr.status # 429
            /\ nreq = attempt + 1
            /\ nsleeps = attempt)

C2_Witness ==
    /\ xpc = "raised" /\ xerr.type = "HTTPError"
    /\ n429 >= 1 /\ ntimeout >= 1 /\ attempt = MAX_RETRIES - 1

\* C3 (as claimed): for every 429 whose message yields a minute value m,
\* m = 0 included, the wait is floor(m * 60) + 5, whatever the attempt index
\* and the Retry-After header.
C3_WaitFromParsedMinutes ==
    (After429 /\ ParseWaitMinutes(resp.body) # None) =>
        wait_time = ((resp.body.minutes * 60) \div 100) + 5

\* C4: for a 429 with no parsed minute value and a digit Retry-After r the
\* wait is an integer in [r + 2, r + 5], at every attempt index.
C4_WaitFromRetryAfter ==
    (After429 /\ ParseWaitMinutes(resp.body) = None
              /\ resp.retry_after.text = "digits") =>
        wait_time \in (resp.retry_after.value + 2)..(resp.retry_after.value + 5)

C4_Witness ==
    /\ After429 /\ attempt = 2
    /\ resp.body.shape = "badfloat"
    /\ resp.retry_after = [text |-> "digits", value |-> 7]
    /\ wait_time = 12

\* C5: for a 429 with neither a parsed minute value nor a digit Retry-After
\* the wait at attempt index k is an integer in
\* [(k+1)*RETRY_BASE_DELAY + 5, (k+1)*RETRY_BASE_DELAY + 15], and the lower
\* bound grows strictly with k.
C5_WaitFromAttemptIndex ==
    /\ (After429 /\ ParseWaitMinutes(resp.body) = None
                 /\ resp.retry_after.text # "digits") =>
          wait_time \in ((attempt + 1) * RETRY_BASE_DELAY + 5)
                          ..((attempt + 1) * RETRY_BASE_DELAY + 15)
    /\ \A k \in 0..(MAX_RETRIES - 2) :
          (k + 1) * RETRY_BASE_DELAY + 5 < (k + 2) * RETRY_BASE_DELAY + 5

C5_Witness ==
    /\ After429 /\ attempt = 2
    /\ resp.body.shape = "nomatch"
    /\ resp.retry_after.text = "date"
    /\ wait_time = 3 * RETRY_BASE_DELAY + 15

\* C6 (as claimed): the sources are consulted in strict priority order: a
\* parsed minute value always decides the wait, Retry-After is used only
\* when no minute value was parsed, the attempt-index fallback only when
\* neither is present.
C6_StrictPriorityOrder ==
    After429 =>
        /\ ParseWaitMinutes(resp.body) # None => wait_source = "message"
        /\ wait_source = "retry_after" =>
              /\ ParseWaitMinutes(resp.body) = None
              /\ resp.retry_after.text = "digits"
        /\ wait_source = "backoff" =>
              /\ ParseWaitMinutes(resp.body) = None
              /\ resp.retry_after.text # "digits"

\* C8: a timed-out attempt is followed by a sleep of 5 seconds and the next
\* iteration of the same loop, which issues the request again while the
\* budget lasts; timeouts and 429s advance the same loop variable, so every
\* mix of them totals at most MAX_RETRIES requests.
C8_TimeoutSleepsFiveSharesBudget ==
    /\ [][(xpc = "sleep" /\ resp.kind = "timeout") =>
            /\ slept' = [kind |-> "timeout", secs |-> 5]
            /\ xpc' = "request"
            /\ attempt' = attempt + 1
            /\ attempt_id' = attempt_id
            /\ nreq' = nreq]_vars
    /\ [][(xpc = "request" /\ attempt < MAX_RETRIES) =>
            (nreq' = nreq + 1 /\ attempt_id' = attempt_id)]_vars
    /\ [](xpc \in {"request", "sleep", "returned", "raised"} =>
            /\ n429 + ntimeout <= nreq
            /\ nreq <= MAX_RETRIES
            /\ xpc = "request" => attempt = n429 + ntimeout)

C8_Witness ==
    /\ xpc = "request" /\ attempt = 2
    /\ slept = [kind |-> "timeout", secs |-> 5]
    /\ n429 = 1 /\ ntimeout = 1

\* ------------------------------------------------------------------------
\* Properties of the run
\* ------------------------------------------------------------------------
\* C7: a 429 on an attempt that is not the last one is followed by a sleep of
\* exactly the computed wait and then by the same request for the same
\* attempt id; no call of another leg (download, review, submit, another
\* detail fetch) happens in between.
C7_BackoffThenSameRequest ==
    /\ [][(After429 /\ attempt < MAX_RETRIES - 1) =>
            /\ slept' = [kind |-> "backoff", secs |-> wait_time]
            /\ xpc' = "request"
            /\ attempt_id' = attempt_id
            /\ attempt' = attempt + 1
            /\ nreq' = nreq
            /\ calls' = calls /\ submitted' = submitted]_vars
    /\ [][(xpc = "request" /\ attempt \in 1..(MAX_RETRIES - 1)) =>
            /\ nreq' = nreq + 1
            /\ attempt_id' = attempt_id
            /\ calls' = calls /\ submitted' = submitted]_vars

C7_Witness ==
    /\ mpc = "fetch" /\ xpc = "returned"
    /\ nreq = 2 /\ n429 = 1 /\ nsleeps = 1
    /\ wait_time = 174 /\ wait_source = "message"

\* C9 (as claimed): the grade POST goes through the retry loop: a POST
\* answered 429 or timed out is reported as failed only after the attempt
\* cap has been used up.
C9_SubmitRetriedLikeFetch ==
    \A a \in AttemptIds :
        (/\ last_post.id = a
         /\ last_post.answer \in {"http429", "timeout"}
         /\ submitted[a].returned = "failed") =>
            submitted[a].posts = MAX_RETRIES

\* C9 (amended): submit_marks_and_feedback sends one POST; whatever the
\* answer, the step that sends it returns to the caller without a sleep and
\* without the executor, and a POST that is not answered with success is
\* reported as failed at once.
C9_SubmitPostsOnce ==
    /\ [](\A a \in AttemptIds :
            /\ submitted[a].posts <= 1
            /\ submitted[a].returned # "none" => submitted[a].posts = 1)
    /\ [][\A a \in AttemptIds :
            submitted'[a].posts # submitted[a].posts =>
                /\ mpc = "submit" /\ mpc' = "tally"
                /\ slept' = NoSleep
                /\ xpc = "idle" /\ UNCHANGED xframe
                /\ last_post'.id = a
                /\ submitted'[a].returned =
                      (IF last_post'.answer = "ok" THEN "ok" ELSE "failed")]_vars

C9_Witness ==
    /\ mpc = "tally"
    /\ last_post.id = CurrentId /\ last_post.answer = "http429"
    /\ submitted[CurrentId] = [posts |-> 1, returned |-> "failed"]

\* C10: when the review of item i ends in AI_REVIEW_FAILED the loop ends at
\* that item: nothing is submitted for it, none of its downloaded files is
\* removed, no call of any leg is made for a later item, no pacing wait
\* follows, and the failure list names item i.
C10_ReviewFailureAborts ==
    result.type = "ai_failure" =>
        /\ mpc \in {"tally", "report", "done"}
        /\ ~result.success
        /\ calls[CurrentId].submit = 0 /\ submitted[CurrentId] = NoSubmit
        /\ downloaded[CurrentId] # {} /\ deleted[CurrentId] = {}
        /\ \A f \in downloaded[CurrentId] : disk[f] = CurrentId
        /\ \A j \in (idx + 1)..Len(all_submissions) :
              calls[all_submissions[j]] = NoCalls
        /\ npace = idx - 1 /\ slept.kind # "pacing"
        /\ mpc \in {"report", "done"} =>
              /\ total_failed = 1
              /\ failed_attempts =
                    <<[item |-> CurrentId,
                       reason |-> "AI review failed after max retries"]>>

C10_Witness ==
    /\ mpc = "done" /\ reported
    /\ result.type = "ai_failure"
    /\ idx < Len(all_submissions)
    /\ Cardinality(downloaded[CurrentId]) = 2

\* Item number i of the accumulated set has left the loop body
ItemFinished(i) == i < idx \/ (i = idx /\ mpc \in {"pace", "next", "report", "done"})

\* C11 (as claimed): when the grade POST of an item fails, whatever the
\* outcome type, the files of the item are kept, the item is in the failure
\* list, and the loop goes on: at the end of the run every item of the
\* accumulated set has been taken up.
C11_SubmitFailureNonFatal ==
    \A i \in 1..Len(all_submissions) :
        (ItemFinished(i) /\ submitted[all_submissions[i]].returned = "failed") =>
            /\ deleted[all_submissions[i]] = {}
            /\ \E k \in 1..Len(failed_attempts) :
                  failed_attempts[k].item = all_submissions[i]
            /\ mpc \in {"report", "done"} =>
                  \A j \in 1..Len(all_submissions) :
                      calls[all_submissions[j]].detail >= 1

\* C12 (as claimed): when fetch_submission_details raises for an item (a
\* non-429 HTTP error or the terminal error after MAX_RETRIES attempts) only
\* that item is counted as failed and every later item of the accumulated
\* set is still taken up before the run ends.
C12_FetchFailureContinues ==
    (/\ mpc \in {"report", "done"}
     /\ result.type = "error" /\ calls[CurrentId].download = 0) =>
        /\ total_failed = 1
        /\ \A j \in (idx + 1)..Len(all_submissions) :
              calls[all_submissions[j]].detail >= 1

C20_NoFilesZeroGrade ==
    /\ [][(mpc = "download" /\ details = <<>>) =>
            /\ mpc' = "submit" /\ files' = <<>>
            /\ calls'[CurrentId].review = 0
            /\ submitted'[CurrentId] = NoSubmit]_vars
    /\ [][(mpc = "submit" /\ files = <<>>) =>
            /\ last_post'.id = CurrentId
            /\ last_post'.mark = 0 /\ last_post'.template = "no_file"
            /\ submitted[CurrentId].posts = 0 /\ submitted'[CurrentId].posts = 1
            /\ calls'[CurrentId].review = 0
            /\ result' = [success |-> TRUE, type |-> "no_files"]]_vars
    /\ [](result.type = "no_files" =>
            /\ result.success
            /\ calls[CurrentId] = [detail |-> 1, download |-> 0, review |-> 0,
                                   submit |-> 1]
            /\ submitted[CurrentId].posts = 1
            /\ last_post.id = CurrentId => last_post.mark = 0)

C20_Witness ==
    /\ mpc = "done" /\ idx = 2
    /\ result = [success |-> TRUE, type |-> "no_files"]
    /\ last_post = [id |-> CurrentId, mark |-> 0, template |-> "no_file",
                    answer |-> "http500"]
    /\ tallies.no_files = 2

\* ------------------------------------------------------------------------
\* Properties of the probe, the gate and the listing phase
\* ------------------------------------------------------------------------
\* No leg of the processing has acted
NothingProcessed ==
    /\ idx = 0 /\ xpc = "idle"
    /\ total_processed = 0 /\ total_failed = 0 /\ npace = 0
    /\ failed_attempts = <<>>
    /\ \A a \in AttemptIds :
          /\ calls[a] = NoCalls /\ submitted[a] = NoSubmit
          /\ downloaded[a] = {} /\ deleted[a] = {}

\* C14: a first probe that ends rate-limited is followed by one
\* wait_with_countdown and one more probe, and a second probe that is not ok
\* ends the run there: main returns with no listing call made, nothing
\* fetched, reviewed or submitted, and takes no further step.
C14_OneWaitOneReprobeThenAbort ==
    /\ [][(/\ gate.pc = "probe1" /\ probe.pc = "returned"
           /\ ~probe.result.success /\ probe.result.error = "rate_limited") =>
            /\ gate'.pc = "wait"
            /\ gate'.nprobes = 1 /\ gate'.nwaits = 0]_vars
    /\ [][gate.pc = "wait" =>
            /\ gate'.pc = "probe2" /\ probe'.pc = "listing"
            /\ gate'.nwaits = 1 /\ gate'.nprobes = 2
            /\ slept'.kind = "countdown"]_vars
    /\ [][gate.pc = "probe2" =>
            /\ gate'.nwaits = 1 /\ gate'.nprobes = 2
            /\ slept' = NoSleep
            /\ gate'.pc \in {"probe2", "returned"}
            /\ probe.pc = "returned" =>
                  gate'.pc = "returned" /\ gate'.ok = probe.result.success]_vars
    /\ [][(gate.pc = "returned" /\ ~gate.ok) => mpc' = "aborted"]_vars
    /\ [](mpc = "aborted" =>
            /\ NothingProcessed
            /\ requested = <<>> /\ all_submissions = <<>>
            /\ gate.first.error = "rate_limited" =>
                  gate.nprobes = 2 /\ gate.nwaits = 1)
    /\ [][mpc = "aborted" => FALSE]_vars

C14_Witness ==
    /\ mpc = "aborted"
    /\ gate.first.error = "rate_limited" /\ gate.first.wait_minutes = 282
    /\ gate.nprobes = 2 /\ gate.nwaits = 1
    /\ probe.result.error = "500 Server Error"
    /\ lms_pages[1] # <<>>

\* C15 (as claimed): after a first probe that ends rate-limited with a hint
\* of m minutes the gate has slept at least m + 1 minutes before the second
\* probe; with no hint it has slept 20 minutes.
C15_WaitIsHintPlusOneMinute ==
    (gate.pc = "probe2" /\ slept.kind = "countdown") =>
        IF gate.first.wait_minutes # None
           THEN slept.secs * 100 >= (gate.first.wait_minutes + 100) * 60
           ELSE slept.secs = FALLBACK_WAIT_MINUTES * 60

\* C16: a call of test_api_availability issues at most one listing request
\* and at most one detail request, the latter only after a listing that
\* returned an item and for that item's attempt id; no step of it sleeps,
\* and a detail request that fails (429 and timeout included) ends the call;
\* a listing without items ends it with (True, None, None).
C16_ProbeNeverRetries ==
    /\ [](/\ probe.nlist <= 1 /\ probe.ndetail <= 1
          /\ probe.ndetail = 1 =>
                /\ probe.nlist = 1 /\ probe.list_resp.kind = "ok"
                /\ probe.submissions # <<>>
                /\ probe.first_attempt_id = probe.submissions[1]
                /\ probe.first_attempt_id = lms_pages[1][1]
          /\ (probe.pc = "returned" /\ probe.list_resp.kind = "ok"
                /\ probe.submissions = <<>>) =>
                /\ probe.result = [success |-> TRUE, error |-> "none",
                                   wait_minutes |-> None]
                /\ probe.ndetail = 0)
    /\ [][probe.pc \in {"listing", "detail"} =>
            /\ slept' = NoSleep /\ nsleeps' = nsleeps
            /\ probe.pc = "listing" =>
                  probe'.nlist = 1 /\ probe'.pc \in {"detail", "returned"}
            /\ probe.pc = "detail" =>
                  probe'.ndetail = 1 /\ probe'.pc = "returned"]_vars

C16_Witness ==
    /\ probe.pc = "returned"
    /\ probe.nlist = 1 /\ probe.ndetail = 1
    /\ probe.detail_resp.kind = "timeout"
    /\ probe.prev.detail_resp.kind = "http" /\ probe.prev.detail_resp.status = 429

RECURSIVE ConcatPages(_)
ConcatPages(n) ==
    IF n = 0 THEN <<>> ELSE ConcatPages(n - 1) \o PageOf(n)

\* The first page that is empty
FirstEmptyPage ==
    CHOOSE n \in 1..(Len(lms_pages) + 1) :
        /\ PageOf(n) = <<>>
        /\ \A j \in 1..(n - 1) : PageOf(j) # <<>>

\* The first page that is not full
FirstShortPage ==
    CHOOSE n \in 1..(Len(lms_pages) + 1) :
        /\ Len(PageOf(n)) < PER_PAGE
        /\ \A j \in 1..(n - 1) : Len(PageOf(j)) = PER_PAGE

\* C18 (as claimed): the listing loop ends on an empty page only, having
\* requested pages 1, 2, ... up to the first empty one, and the accumulated
\* set is the concatenation of the pages before that page.
C18_ListingStopsOnEmptyPageOnly ==
    mpc = "listed" =>
        /\ requested = [i \in 1..FirstEmptyPage |-> i]
        /\ all_submissions = ConcatPages(FirstEmptyPage - 1)

\* C18 (amended): the listing loop requests pages 1, 2, ... in order and
\* ends on the first page that is empty or has fewer than per_page items;
\* the accumulated set is the concatenation of the pages requested, that
\* page included, and no later page is requested.
C18_ListingStopsOnShortPage ==
    /\ requested = [i \in 1..Len(requested) |-> i]
    /\ Len(requested) <= FirstShortPage
    /\ mpc = "listing" =>
          /\ page = Len(requested) + 1
          /\ all_submissions = ConcatPages(page - 1)
    /\ mpc = "listed" =>
          /\ Len(requested) = FirstShortPage
          /\ all_submissions = ConcatPages(FirstShortPage)

C18_Witness ==
    /\ mpc = "listed"
    /\ requested = <<1, 2>>
    /\ Len(all_submissions) = PER_PAGE + 1
    /\ PageOf(3) # <<>>

\* C19: when the probe succeeded and the first listing request returns an
\* empty page, no further page is requested and main returns in its next
\* step with nothing processed: no detail fetch, download, review, POST or
\* pacing wait has happened, the counters are zero, and no step follows.
C19_NothingPendingEndsRun ==
    /\ [][(mpc = "listing" /\ mpc' = "listed" /\ all_submissions' = <<>>) =>
            requested' = <<1>> /\ NothingProcessed']_vars
    /\ [][(mpc = "listed" /\ all_submissions = <<>>) =>
            mpc' = "returned" /\ UNCHANGED <<xvars, pvars>>]_vars
    /\ [](mpc = "returned" =>
            /\ all_submissions = <<>> /\ requested = <<1>>
            /\ NothingProcessed
            /\ slept = NoSleep)
    /\ [][mpc = "returned" => FALSE]_vars

C19_Witness ==
    /\ mpc = "returned"
    /\ lms_pages = << <<>> >>
    /\ requested = <<1>>
    /\ total_processed = 0 /\ total_failed = 0

\* ------------------------------------------------------------------------
\* Properties of the outcomes, the pacing and the statistics
\* ------------------------------------------------------------------------
\* C21 (as claimed): for an item whose first file is of a format
\* review_assignment rejects, the POST carries mark 0, the .doc/.docx text
\* exactly when the extension is .doc or .docx and the generic text for every
\* other extension, and the item returns success.
C21_TemplateByExtension ==
    (/\ mpc = "tally" /\ last_post.id = CurrentId
     /\ result.type \in {"doc_rejected", "zip_rejected", "invalid_format"}) =>
        /\ result.success
        /\ last_post.mark = 0
        /\ last_post.template =
              (IF result.type = "doc_rejected" THEN "doc_format" ELSE "invalid_format")

\* C22 (as claimed): every mark posted to the LMS lies in 0..TOTAL_MARKS,
\* whichever way review_assignment extracted it, and is 0 for an item without
\* files or with a rejected format.
C22_SubmittedMarksWithinRange ==
    last_post.id # 0 =>
        /\ last_post.mark \in 0..TOTAL_MARKS
        /\ last_post.template # "review" => last_post.mark = 0

\* C26 (as claimed): the feedback review_assignment returns for a reviewed
\* file is never longer than MAX_CHARS characters, whatever the response.
C26_FeedbackWithinBudget ==
    review_result.can_review => Len(review_text) <= MAX_CHARS

\* C27 (as claimed): a response that contains the score marker and is longer
\* than MAX_CHARS is cut to a feedback that still contains the marker.
C27_MarkerSurvivesTruncation ==
    (/\ review_result.can_review
     /\ Len(response) > MAX_CHARS
     /\ Contains(response, ScoreMarker)) =>
        Contains(review_text, ScoreMarker)

\* C23: while item idx is in progress exactly idx - 1 pacing pauses have been
\* taken (one between every two consecutive items); a pacing pause lasts
\* between MIN_DELAY_BETWEEN_REQUESTS and MAX_DELAY_BETWEEN_REQUESTS seconds
\* and follows only an item that succeeded and is not the last one, so none
\* follows the last item or an item that ends the run.
C23_OnePacingPauseBetweenItems ==
    /\ npace = (IF idx = 0 THEN 0 ELSE IF mpc = "next" THEN idx ELSE idx - 1)
    /\ slept.kind = "pacing" =>
          /\ slept.secs \in MIN_DELAY_BETWEEN_REQUESTS..MAX_DELAY_BETWEEN_REQUESTS
          /\ mpc = "next"
          /\ result.success
          /\ idx < Len(all_submissions)
    /\ mpc \in {"report", "done"} => npace = idx - 1

\* C23 witness: a run of two items that completed with one pause
C23_Witness ==
    /\ mpc = "done" /\ Len(all_submissions) = 2
    /\ idx = 2 /\ total_processed = 2 /\ npace = 1

\* The positions at which main has ended
Ended == {"done", "aborted", "no_ai", "returned", "crashed"}

\* C24 (as claimed): every run that has ended, the gate abort and the listing
\* error included, has emitted the final summary.
C24_EveryEndedRunReported == mpc \in Ended => reported

\* C24 (amended): the final summary is emitted exactly by the runs that
\* entered the processing loop, whether the loop completed or was broken;
\* a run that ended before the loop (blocked API, missing key, nothing
\* pending, listing error) has emitted none, and a run that entered the loop
\* ends nowhere but after the summary.
C24_ReportEndsEveryProcessingRun ==
    /\ mpc = "done" => reported /\ idx >= 1
    /\ reported => mpc = "done"
    /\ mpc \in Ended \ {"done"} => ~reported /\ idx = 0
    /\ idx >= 1 => mpc \notin Ended \ {"done"}

\* C24 witness: a run whose loop was broken by a failed item has reported
C24_Witness ==
    /\ mpc = "done" /\ reported
    /\ total_failed = 1 /\ idx < Len(all_submissions)

\* C25 (as claimed): a wait of more than one minute, at the gate or in the
\* executor, is carried out by sleep calls of at most one minute each.
C25_LongWaitsInIncrements ==
    slept.secs > 60 => LongestSleepCall(slept) <= 60

\* review_assignment has answered for a first file it does not review
FormatRejected == mpc = "submit" /\ files # <<>> /\ ~CanAiReview(MainFile)

\* C28 (as claimed): the outcome for a .doc/.docx file has is_valid_format
\* true and can_review false; for any other rejected format is_valid_format
\* is false.
C28_DocumentFormatValid ==
    FormatRejected =>
        /\ ~review_result.can_review
        /\ review_result.is_valid_format = IsValidFileType(MainFile)

\* C28 (amended): the outcome for a .doc/.docx file and for a wholly invalid
\* format both have is_valid_format false and can_review false, no marks and
\* no retries; they differ in the feedback text only, which follows what
\* is_valid_file_type said about the extension.
C28_RejectedFormatsDifferInFeedbackOnly ==
    FormatRejected =>
        /\ ~review_result.is_valid_format
        /\ ~review_result.can_review
        /\ review_result.suggested_marks = None
        /\ review_result.retry_count = 0
        /\ review_result.ext = Ext(MainFile)
        /\ review_result.feedback =
              (IF IsValidFileType(MainFile)
                  THEN "File format not supported for AI review"
                  ELSE "Invalid file format")

\* C28 witness: the outcome for a .docx file
C28_Witness ==
    /\ FormatRejected /\ Ext(MainFile) = ".docx"
    /\ ~review_result.is_valid_format
    /\ review_result.feedback = "File format not supported for AI review"

\* The items of the accumulated set that have left the loop body
FinishedItems == {i \in 1..Len(all_submissions) : ItemFinished(i)}

\* Rejected formats that are neither .doc/.docx nor .zip
OtherInvalid == tallies.invalid_format - tallies.doc_files - tallies.zip_files

StatisticsBalance ==
    /\ total_processed + total_failed = Cardinality(FinishedItems)
    /\ Cardinality(FinishedItems) <= Len(all_submissions)
    /\ Len(failed_attempts) = total_failed
    /\ OtherInvalid >= 0
    /\ tallies.pdf_graded + tallies.doc_files + tallies.zip_files + OtherInvalid
          + tallies.no_files = total_processed

StatisticsGrow ==
    /\ total_processed' >= total_processed
    /\ total_failed' >= total_failed
    /\ Len(failed_attempts') >= Len(failed_attempts)
    /\ \A k \in DOMAIN tallies : tallies'[k] >= tallies[k]

\* C29: no counter of the run ever decreases; in every state processed +
\* failed is the number of items that have left the loop body, at most the
\* size of the accumulated set; and graded + document-rejected +
\* archive-rejected + other-invalid + no-files is the processed count.
C29_StatisticsAccumulate == []StatisticsBalance /\ [][StatisticsGrow]_vars

\* C29 witness: two items counted, one of them a rejected format that is
\* neither a document nor an archive
C29_Witness ==
    /\ mpc = "done" /\ total_processed = 2
    /\ OtherInvalid = 1 /\ tallies.invalid_format = 1

\* C30: when every call returns and every sleep ends, every run of main
\* comes to an end and stays there, and every call of the executor that is
\* requesting or sleeping comes to return or to raise.
C30_RunAndExecutorTerminate ==
    /\ <>[](mpc \in Ended)
    /\ (xpc \in {"request", "sleep"}) ~> (xpc \in {"returned", "raised"})

\* C30 witness: inside a run, the executor has given up after MAX_RETRIES
\* requests and as many sleeps
C30_Witness ==
    /\ mpc = "fetch" /\ xpc = "raised"
    /\ nreq = MAX_RETRIES /\ nsleeps = MAX_RETRIES

\* ------------------------------------------------------------------------
\* Further properties of the executor
\* ------------------------------------------------------------------------
\* C31 (as claimed): a 429 from the detail endpoint reaches the caller of
\* fetch_submission_details as an HTTP error with status 429: the step that
\* receives it raises it, and the call never ends in the generic exception.
C31_Caller429Observed ==
    /\ [][(nreq' = nreq + 1 /\ resp'.kind = "http" /\ resp'.status = 429) =>
            /\ xpc' = "raised"
            /\ xerr'.type = "HTTPError" /\ xerr'.status = 429]_vars
    /\ [](xerr.type # "Exception")

\* C32: every 429 received is followed by a sleep of the computed wait, the
\* one on the last permitted attempt included; that last sleep is followed
\* by no request but by the terminal error; so when a call has ended its
\* sleeps are as many as its 429s and timeouts, each 429 having had its
\* backoff sleep.
C32_SleepAfterEvery429 ==
    /\ [][After429 =>
            /\ slept' = [kind |-> "backoff", secs |-> wait_time]
            /\ nsleeps' = nsleeps + 1
            /\ nreq' = nreq
            /\ xpc' = "request"]_vars
    /\ [][(xpc = "request" /\ attempt = MAX_RETRIES) =>
            /\ xpc' = "raised" /\ xerr'.type = "Exception"
            /\ nreq' = nreq /\ nsleeps' = nsleeps]_vars
    /\ [](xpc \in {"request", "returned", "raised"} => nsleeps = n429 + ntimeout)
    /\ [](xpc = "sleep" => nsleeps + 1 = n429 + ntimeout)

\* C32 witness: three 429s, three sleeps, then the terminal error
C32_Witness ==
    /\ xpc = "raised" /\ xerr.type = "Exception"
    /\ n429 = MAX_RETRIES /\ nsleeps = MAX_RETRIES /\ nreq = MAX_RETRIES

\* ------------------------------------------------------------------------
\* Further properties of the run
\* ------------------------------------------------------------------------
\* C33: the loop ends at the first item whose processing returned failure,
\* whatever its cause: at most one item is ever counted as failed, the
\* failure list has that one entry with the AI-review reason, and once an
\* item is counted as failed no call is made for a later item and main is at
\* or after the summary.
C33_FirstFailureEndsLoop ==
    /\ total_failed <= 1
    /\ Len(failed_attempts) = total_failed
    /\ \A k \in 1..Len(failed_attempts) :
          failed_attempts[k].reason = "AI review failed after max retries"
    /\ total_failed = 1 =>
          /\ mpc \in {"report", "done"}
          /\ ~result.success
          /\ failed_attempts[1].item = CurrentId
          /\ total_processed = idx - 1
          /\ \A j \in (idx + 1)..Len(all_submissions) :
                calls[all_submissions[j]] = NoCalls
    /\ (ItemFinished(idx) /\ idx >= 1 /\ ~result.success) => total_failed = 1

\* C33 witness: the failed grade POST of a reviewed first file has ended a
\* run of two items
C33_Witness ==
    /\ mpc = "done" /\ total_failed = 1
    /\ result.type = "pdf_graded"
    /\ idx = 1 /\ Len(all_submissions) = 2

\* The tally an outcome type is counted under
TallyOf(type) ==
    CASE type = "no_files" -> tallies.no_files
      [] type = "doc_rejected" -> tallies.doc_files
      [] type = "zip_rejected" -> tallies.zip_files
      [] OTHER -> tallies.invalid_format

\* Item idx has left the loop body, its grade POST failed, and it had no
\* file or a rejected format
UngradedPostFailed ==
    /\ idx >= 1 /\ ItemFinished(idx)
    /\ submitted[CurrentId].returned = "failed"
    /\ result.type \in {"no_files", "doc_rejected", "zip_rejected", "invalid_format"}

\* C34: an item without files or with a rejected format whose grade POST
\* failed is counted as processed under its outcome type and not as failed,
\* none of its files is removed, and the loop goes on: it ends only after the
\* last item of the accumulated set.
C34_UngradedPostFailureIsProcessed ==
    UngradedPostFailed =>
        /\ result.success
        /\ total_failed = 0 /\ failed_attempts = <<>>
        /\ total_processed = idx
        /\ TallyOf(result.type) >= 1
        /\ deleted[CurrentId] = {}
        /\ \A f \in downloaded[CurrentId] : disk[f] = CurrentId
        /\ mpc \in {"pace", "next"} <=> idx < Len(all_submissions)

\* C34 witness: the POST for a rejected first item failed, its file is
\* there, and the second item has been taken up
C34_Witness ==
    /\ mpc = "done" /\ idx = 2 /\ total_processed = 2
    /\ submitted[all_submissions[1]].returned = "failed"
    /\ downloaded[all_submissions[1]] # {}
    /\ deleted[all_submissions[1]] = {}

\* Position of attempt id a in the accumulated set (0: not in it)
PositionOf(a) ==
    IF a \in Range(all_submissions)
       THEN CHOOSE i \in 1..Len(all_submissions) : all_submissions[i] = a
       ELSE 0

\* C35: in a run every item gets at most one call of the executor, at most
\* one call of review_assignment and at most one grade POST, the POST only
\* after the item's own detail was fetched and its files downloaded; calls
\* are made for items of the accumulated set only, in listing order: an item
\* has calls only when the loop has reached it, and every item before the
\* current one has had its detail fetch.
C35_OnePassInListingOrder ==
    /\ \A a \in AttemptIds :
          /\ calls[a].detail <= 1 /\ calls[a].review <= 1 /\ calls[a].submit <= 1
          /\ submitted[a].posts = calls[a].submit
          /\ calls[a].submit = 1 =>
                /\ calls[a].detail = 1
                /\ a = CurrentId => mpc \notin {"fetch", "download"}
          /\ calls[a].review = 1 => calls[a].detail = 1
          /\ calls[a] # NoCalls => PositionOf(a) \in 1..idx
    /\ \A i \in 1..Len(all_submissions) :
          /\ i < idx => calls[all_submissions[i]].detail = 1
          /\ i > idx => calls[all_submissions[i]] = NoCalls
    /\ \A i, j \in 1..Len(all_submissions) :
          i # j => all_submissions[i] # all_submissions[j]

\* C35 witness: two items, each fetched, reviewed and posted once
C35_Witness ==
    /\ mpc = "done" /\ idx = 2
    /\ \A i \in 1..2 :
          /\ calls[all_submissions[i]].detail = 1
          /\ calls[all_submissions[i]].review = 1
          /\ calls[all_submissions[i]].submit = 1

\* C36 (as claimed): a file kept on disk because the grade POST of its item
\* failed stays the file that item wrote for the rest of the run, whatever
\* the file names of later items.
C36_KeptFileUntouched ==
    \A i \in 1..Len(all_submissions) :
        (ItemFinished(i) /\ submitted[all_submissions[i]].returned = "failed") =>
            \A f \in downloaded[all_submissions[i]] : disk[f] = all_submissions[i]

\* The first probe of the gate failed and was not rate-limited
FirstProbeOtherFailure ==
    /\ ~gate.first.success
    /\ gate.first.error \notin {"none", "rate_limited"}

\* C37: after a first probe that failed without being rate-limited the gate
\* has returned not ok with one probe and no wait, main is in the gate or has
\* ended there, the step that ended it slept nothing, and nothing was
\* listed, fetched, reviewed or submitted.
C37_OtherProbeFailureEndsRunAtOnce ==
    FirstProbeOtherFailure =>
        /\ gate.pc = "returned" /\ ~gate.ok
        /\ gate.nprobes = 1 /\ gate.nwaits = 0 /\ gate.wait_mins = 0
        /\ probe.prev = NoSeen /\ probe.result = gate.first
        /\ mpc \in {"gate", "aborted"}
        /\ slept = NoSleep
        /\ requested = <<>> /\ all_submissions = <<>>
        /\ NothingProcessed

\* C37 witness: the run has ended after a first probe that timed out, with
\* an item pending at the LMS
C37_Witness ==
    /\ mpc = "aborted"
    /\ gate.first.error = "Read timed out"
    /\ gate.nprobes = 1
    /\ lms_pages[1] # <<>>

\* ------------------------------------------------------------------------
\* Properties of the review loop
\* ------------------------------------------------------------------------
\* C38: review_assignment makes at most REVIEW_MAX_RETRIES attempts; the
\* attempt of index k >= 1 comes after a sleep of 5 * k seconds, the first
\* after none; the call returns on the attempt that gets a response, with
\* retry_count the number of attempts made, and makes no attempt after that;
\* it returns AI_REVIEW_FAILED only when the attempt of the last index has
\* raised, all attempts before it having raised, with retry_count
\* REVIEW_MAX_RETRIES.
C38_ReviewRetriesThenTerminalFailure ==
    /\ [](review_attempt \in 0..(REVIEW_MAX_RETRIES - 1))
    /\ [][review_result = NoReview =>
            /\ slept' = (IF review_attempt >= 1
                            THEN [kind |-> "review", secs |-> 5 * review_attempt]
                            ELSE NoSleep)
            /\ \/ /\ review_result'.can_review
                  /\ review_result'.retry_count = review_attempt + 1
                  /\ review_attempt' = review_attempt
               \/ /\ review_result' = NoReview
                  /\ review_attempt' = review_attempt + 1
               \/ /\ review_result'.feedback = "AI_REVIEW_FAILED"
                  /\ review_attempt = REVIEW_MAX_RETRIES - 1
                  /\ review_result'.retry_count = REVIEW_MAX_RETRIES]_vars
    /\ [][review_result # NoReview => FALSE]_vars
    /\ [](review_result.feedback = "AI_REVIEW_FAILED" =>
            /\ ~review_result.can_review /\ ~review_result.is_valid_format
            /\ review_result.retry_count = REVIEW_MAX_RETRIES
            /\ review_text = NoText)

\* C38 witness: the third attempt got a response after a sleep of ten seconds
C38_Witness ==
    /\ review_result.can_review /\ review_result.retry_count = 3
    /\ slept = [kind |-> "review", secs |-> 10]
    /\ review_text # NoText

=============================================================================
